---- MODULE Spec2Model ----
(***************************************************************************)
(* Grounding and execution engine of the DTDL digital-twin service:       *)
(* the twin model (content list + property cache), the update validator,  *)
(* the schema resolver's command path and the command service.            *)
(*                                                                         *)
(* JavaScript values are records [t, n, s]: t is the value's typeof, n     *)
(* carries a number and s a string.  Numbers are fixed-point integers in   *)
(* units of 1/Scale, so that 100.0001 is the integer 100 * Scale + 1.      *)
(***************************************************************************)
EXTENDS Integers, Sequences, FiniteSets, TLC

VARIABLES
    entities,     \* DTDLModel.entities: id -> Entity (type, contents, properties, relationships)
    order,        \* insertion order of the Map DTDLModel.entities
    calls,        \* number of direct updateEntityProperty calls made so far
    res,          \* the UpdateResult returned by the last direct call
    vin,          \* UpdateValidator.validate: the input of the call (entity, row, value)
    vout,         \* UpdateValidator.validate: the returned ValidationResult
    cmds,         \* CommandService.executeCommand: the state of each call in flight
    db,           \* the store behind DTDLRepository: id -> persisted content list
    writer,       \* history: the command whose updateEntityProperty wrote <<id, property>> last
    rin,          \* resolvers and executors: the arguments of the calls under check
    rout,         \* resolvers and executors: what each call made so far returned
    executors,    \* QueryExecutorRegistry.executors
    registered    \* history: the executors passed to register so far, in call order

vars == <<entities, order, calls, res, vin, vout, cmds, db, writer, rin, rout,
          executors, registered>>

----------------------------------------------------------------------------
(* JavaScript values *)

Scale == 10000

Undef == [t |-> "undefined", n |-> 0, s |-> ""]
Null == [t |-> "object", n |-> 0, s |-> "null"]
NumV(x) == [t |-> "number", n |-> x, s |-> ""]
StrV(x) == [t |-> "string", n |-> 0, s |-> x]
BoolV(b) == [t |-> "boolean", n |-> IF b THEN 1 ELSE 0, s |-> ""]

TypeOf(v) == v.t

\* value !== undefined ? value : fallback
OrElse(v, fallback) == IF v # Undef THEN v ELSE fallback

----------------------------------------------------------------------------
(* Content list items and the property cache *)

NoAllowed == [has |-> FALSE, vals |-> {}]
NoConstraints == [has |-> FALSE, min |-> Undef, max |-> Undef,
                  allowedValues |-> NoAllowed, readOnly |-> Undef]

PropertyItem(name, schema, value, initialValue, writable) ==
    [type |-> "Property", name |-> name, schema |-> schema, value |-> value,
     initialValue |-> initialValue, writable |-> writable, target |-> ""]

RelationshipItem(name, target) ==
    [type |-> "Relationship", name |-> name, schema |-> "", value |-> Undef,
     initialValue |-> Undef, writable |-> Undef, target |-> target]

TelemetryItem(name, schema) ==
    [type |-> "Telemetry", name |-> name, schema |-> schema, value |-> Undef,
     initialValue |-> Undef, writable |-> Undef, target |-> ""]

\* the type a loader derives from a Property item's schema
SchemaType(schema) ==
    IF schema \in {"double", "float", "int"} THEN "number"
    ELSE IF schema = "boolean" THEN "boolean"
    ELSE "string"

\* the cache entry built from the declared default before the current value
CacheEntry_defaultFirst(content) ==
    LET propValue == OrElse(content.initialValue, content.value)
    IN  [value |-> IF propValue # Undef THEN propValue ELSE Null,
         type |-> SchemaType(content.schema),
         editable |-> BoolV(content.writable # BoolV(FALSE)),
         constraints |-> NoConstraints]

\* the cache entry a loader builds for one Property item
CacheEntry(content) ==
    LET propValue == OrElse(content.value, content.initialValue)
    IN  [value |-> IF propValue # Undef THEN propValue ELSE Null,
         type |-> SchemaType(content.schema),
         editable |-> BoolV(content.writable # BoolV(FALSE)),
         constraints |-> NoConstraints]

\* index of the last Property item named name (0 if none): a later
\* assignment properties[propName] = ... overwrites an earlier one
LastPropertyIndex(contents, name) ==
    LET idx == {i \in 1..Len(contents) :
                   contents[i].type = "Property" /\ contents[i].name = name}
    IN  IF idx = {} THEN 0 ELSE CHOOSE i \in idx : \A j \in idx : j <= i

extractProperties(contents) ==
    LET names == {contents[i].name : i \in {j \in 1..Len(contents) :
                                               contents[j].type = "Property"}}
    IN  [nm \in names |-> CacheEntry(contents[LastPropertyIndex(contents, nm)])]

LastRelationshipIndex(contents, name) ==
    LET idx == {i \in 1..Len(contents) :
                   /\ contents[i].type = "Relationship"
                   /\ contents[i].name = name
                   /\ contents[i].name # "" /\ contents[i].target # ""}
    IN  IF idx = {} THEN 0 ELSE CHOOSE i \in idx : \A j \in idx : j <= i

extractRelationships(contents) ==
    LET names == {contents[i].name : i \in {j \in 1..Len(contents) :
                     LastRelationshipIndex(contents, contents[j].name) # 0}}
    IN  [nm \in names |-> contents[LastRelationshipIndex(contents, nm)].target]

----------------------------------------------------------------------------
(* Strings.  A JavaScript string is a name of StrTab; its characters are   *)
(* StrTab[name].  String operations work on the character sequences.       *)

\* BEGIN StrTab
StrTab ==
    ("Haul_Truck_CAT_777_2" :> <<"H", "a", "u", "l", "_", "T", "r", "u", "c", "k", "_", "C", "A", "T", "_", "7", "7", "7", "_", "2">>)
    @@ ("Haul_Truck_CAT_777_20" :> <<"H", "a", "u", "l", "_", "T", "r", "u", "c", "k", "_", "C", "A", "T", "_", "7", "7", "7", "_", "2", "0">>)
    @@ ("Loader_CAT_994_1" :> <<"L", "o", "a", "d", "e", "r", "_", "C", "A", "T", "_", "9", "9", "4", "_", "1">>)
    @@ ("Haul Truck CAT 777" :> <<"H", "a", "u", "l", " ", "T", "r", "u", "c", "k", " ", "C", "A", "T", " ", "7", "7", "7">>)
    @@ ("Loader CAT 994" :> <<"L", "o", "a", "d", "e", "r", " ", "C", "A", "T", " ", "9", "9", "4">>)
    @@ ("Haul Truck" :> <<"H", "a", "u", "l", " ", "T", "r", "u", "c", "k">>)
    @@ ("Loader" :> <<"L", "o", "a", "d", "e", "r">>)
    @@ ("HaulPath" :> <<"H", "a", "u", "l", "P", "a", "t", "h">>)
    @@ ("Path" :> <<"P", "a", "t", "h">>)
    @@ ("Stockpile" :> <<"S", "t", "o", "c", "k", "p", "i", "l", "e">>)
    @@ ("Mine Layout" :> <<"M", "i", "n", "e", " ", "L", "a", "y", "o", "u", "t">>)
    @@ ("HaulTruck" :> <<"H", "a", "u", "l", "T", "r", "u", "c", "k">>)
    @@ ("HaulRoute" :> <<"H", "a", "u", "l", "R", "o", "u", "t", "e">>)
    @@ ("MineLayout" :> <<"M", "i", "n", "e", "L", "a", "y", "o", "u", "t">>)
    @@ ("Unknown" :> <<"U", "n", "k", "n", "o", "w", "n">>)
    @@ ("focusSnapDistanceMeters" :> <<"f", "o", "c", "u", "s", "S", "n", "a", "p", "D", "i", "s", "t", "a", "n", "c", "e", "M", "e", "t", "e", "r", "s">>)
    @@ ("builderCategory" :> <<"b", "u", "i", "l", "d", "e", "r", "C", "a", "t", "e", "g", "o", "r", "y">>)
    @@ ("speedMph" :> <<"s", "p", "e", "e", "d", "M", "p", "h">>)
    @@ ("status" :> <<"s", "t", "a", "t", "u", "s">>)
    @@ ("truckId" :> <<"t", "r", "u", "c", "k", "I", "d">>)
    @@ ("haulPathId" :> <<"h", "a", "u", "l", "P", "a", "t", "h", "I", "d">>)
    @@ ("haulPhase" :> <<"h", "a", "u", "l", "P", "h", "a", "s", "e">>)
    @@ ("posX" :> <<"p", "o", "s", "X">>)
    @@ ("posY" :> <<"p", "o", "s", "Y">>)
    @@ ("posZ" :> <<"p", "o", "s", "Z">>)
    @@ ("headingDeg" :> <<"h", "e", "a", "d", "i", "n", "g", "D", "e", "g">>)
    @@ ("payload" :> <<"p", "a", "y", "l", "o", "a", "d">>)
    @@ ("engineTemp" :> <<"e", "n", "g", "i", "n", "e", "T", "e", "m", "p">>)
    @@ ("fuelLevel" :> <<"f", "u", "e", "l", "L", "e", "v", "e", "l">>)
    @@ ("fuelConsumptionRate" :> <<"f", "u", "e", "l", "C", "o", "n", "s", "u", "m", "p", "t", "i", "o", "n", "R", "a", "t", "e">>)
    @@ ("brakePedalPos" :> <<"b", "r", "a", "k", "e", "P", "e", "d", "a", "l", "P", "o", "s">>)
    @@ ("throttlePos" :> <<"t", "h", "r", "o", "t", "t", "l", "e", "P", "o", "s">>)
    @@ ("vibrationLevel" :> <<"v", "i", "b", "r", "a", "t", "i", "o", "n", "L", "e", "v", "e", "l">>)
    @@ ("tirePressureFL" :> <<"t", "i", "r", "e", "P", "r", "e", "s", "s", "u", "r", "e", "F", "L">>)
    @@ ("tirePressureFR" :> <<"t", "i", "r", "e", "P", "r", "e", "s", "s", "u", "r", "e", "F", "R">>)
    @@ ("tirePressureRLO" :> <<"t", "i", "r", "e", "P", "r", "e", "s", "s", "u", "r", "e", "R", "L", "O">>)
    @@ ("tirePressureRLI" :> <<"t", "i", "r", "e", "P", "r", "e", "s", "s", "u", "r", "e", "R", "L", "I">>)
    @@ ("tirePressureRRO" :> <<"t", "i", "r", "e", "P", "r", "e", "s", "s", "u", "r", "e", "R", "R", "O">>)
    @@ ("tirePressureRRI" :> <<"t", "i", "r", "e", "P", "r", "e", "s", "s", "u", "r", "e", "R", "R", "I">>)
    @@ ("maxSpeedKph" :> <<"m", "a", "x", "S", "p", "e", "e", "d", "K", "p", "h">>)
    @@ ("builderIsPhysical" :> <<"b", "u", "i", "l", "d", "e", "r", "I", "s", "P", "h", "y", "s", "i", "c", "a", "l">>)
    @@ ("haul path id" :> <<"h", "a", "u", "l", " ", "p", "a", "t", "h", " ", "i", "d">>)
    @@ ("haul path" :> <<"h", "a", "u", "l", " ", "p", "a", "t", "h">>)
    @@ ("path id" :> <<"p", "a", "t", "h", " ", "i", "d">>)
    @@ ("pathid" :> <<"p", "a", "t", "h", "i", "d">>)
    @@ ("route id" :> <<"r", "o", "u", "t", "e", " ", "i", "d">>)
    @@ ("routeid" :> <<"r", "o", "u", "t", "e", "i", "d">>)
    @@ ("current path" :> <<"c", "u", "r", "r", "e", "n", "t", " ", "p", "a", "t", "h">>)
    @@ ("haul phase" :> <<"h", "a", "u", "l", " ", "p", "h", "a", "s", "e">>)
    @@ ("phase" :> <<"p", "h", "a", "s", "e">>)
    @@ ("current phase" :> <<"c", "u", "r", "r", "e", "n", "t", " ", "p", "h", "a", "s", "e">>)
    @@ ("speed" :> <<"s", "p", "e", "e", "d">>)
    @@ ("current speed" :> <<"c", "u", "r", "r", "e", "n", "t", " ", "s", "p", "e", "e", "d">>)
    @@ ("speed mph" :> <<"s", "p", "e", "e", "d", " ", "m", "p", "h">>)
    @@ ("velocity" :> <<"v", "e", "l", "o", "c", "i", "t", "y">>)
    @@ ("speed limit" :> <<"s", "p", "e", "e", "d", " ", "l", "i", "m", "i", "t">>)
    @@ ("max speed" :> <<"m", "a", "x", " ", "s", "p", "e", "e", "d">>)
    @@ ("maximum speed" :> <<"m", "a", "x", "i", "m", "u", "m", " ", "s", "p", "e", "e", "d">>)
    @@ ("maxspeed" :> <<"m", "a", "x", "s", "p", "e", "e", "d">>)
    @@ ("current status" :> <<"c", "u", "r", "r", "e", "n", "t", " ", "s", "t", "a", "t", "u", "s">>)
    @@ ("state" :> <<"s", "t", "a", "t", "e">>)
    @@ ("equipment status" :> <<"e", "q", "u", "i", "p", "m", "e", "n", "t", " ", "s", "t", "a", "t", "u", "s">>)
    @@ ("engine temperature" :> <<"e", "n", "g", "i", "n", "e", " ", "t", "e", "m", "p", "e", "r", "a", "t", "u", "r", "e">>)
    @@ ("engine temp" :> <<"e", "n", "g", "i", "n", "e", " ", "t", "e", "m", "p">>)
    @@ ("temperature" :> <<"t", "e", "m", "p", "e", "r", "a", "t", "u", "r", "e">>)
    @@ ("enginetemp" :> <<"e", "n", "g", "i", "n", "e", "t", "e", "m", "p">>)
    @@ ("fuel level" :> <<"f", "u", "e", "l", " ", "l", "e", "v", "e", "l">>)
    @@ ("fuel" :> <<"f", "u", "e", "l">>)
    @@ ("fuellevel" :> <<"f", "u", "e", "l", "l", "e", "v", "e", "l">>)
    @@ ("fuel percentage" :> <<"f", "u", "e", "l", " ", "p", "e", "r", "c", "e", "n", "t", "a", "g", "e">>)
    @@ ("fuel consumption" :> <<"f", "u", "e", "l", " ", "c", "o", "n", "s", "u", "m", "p", "t", "i", "o", "n">>)
    @@ ("fuel consumption rate" :> <<"f", "u", "e", "l", " ", "c", "o", "n", "s", "u", "m", "p", "t", "i", "o", "n", " ", "r", "a", "t", "e">>)
    @@ ("fuel rate" :> <<"f", "u", "e", "l", " ", "r", "a", "t", "e">>)
    @@ ("position x" :> <<"p", "o", "s", "i", "t", "i", "o", "n", " ", "x">>)
    @@ ("x position" :> <<"x", " ", "p", "o", "s", "i", "t", "i", "o", "n">>)
    @@ ("x coordinate" :> <<"x", " ", "c", "o", "o", "r", "d", "i", "n", "a", "t", "e">>)
    @@ ("pos x" :> <<"p", "o", "s", " ", "x">>)
    @@ ("position y" :> <<"p", "o", "s", "i", "t", "i", "o", "n", " ", "y">>)
    @@ ("y position" :> <<"y", " ", "p", "o", "s", "i", "t", "i", "o", "n">>)
    @@ ("y coordinate" :> <<"y", " ", "c", "o", "o", "r", "d", "i", "n", "a", "t", "e">>)
    @@ ("pos y" :> <<"p", "o", "s", " ", "y">>)
    @@ ("position z" :> <<"p", "o", "s", "i", "t", "i", "o", "n", " ", "z">>)
    @@ ("z position" :> <<"z", " ", "p", "o", "s", "i", "t", "i", "o", "n">>)
    @@ ("z coordinate" :> <<"z", " ", "c", "o", "o", "r", "d", "i", "n", "a", "t", "e">>)
    @@ ("pos z" :> <<"p", "o", "s", " ", "z">>)
    @@ ("altitude" :> <<"a", "l", "t", "i", "t", "u", "d", "e">>)
    @@ ("heading" :> <<"h", "e", "a", "d", "i", "n", "g">>)
    @@ ("direction" :> <<"d", "i", "r", "e", "c", "t", "i", "o", "n">>)
    @@ ("heading degrees" :> <<"h", "e", "a", "d", "i", "n", "g", " ", "d", "e", "g", "r", "e", "e", "s">>)
    @@ ("headingdeg" :> <<"h", "e", "a", "d", "i", "n", "g", "d", "e", "g">>)
    @@ ("load" :> <<"l", "o", "a", "d">>)
    @@ ("weight" :> <<"w", "e", "i", "g", "h", "t">>)
    @@ ("tonnage" :> <<"t", "o", "n", "n", "a", "g", "e">>)
    @@ ("focus snap distance" :> <<"f", "o", "c", "u", "s", " ", "s", "n", "a", "p", " ", "d", "i", "s", "t", "a", "n", "c", "e">>)
    @@ ("snap distance" :> <<"s", "n", "a", "p", " ", "d", "i", "s", "t", "a", "n", "c", "e">>)
    @@ ("focus distance" :> <<"f", "o", "c", "u", "s", " ", "d", "i", "s", "t", "a", "n", "c", "e">>)
    @@ ("focussnapdistancemeters" :> <<"f", "o", "c", "u", "s", "s", "n", "a", "p", "d", "i", "s", "t", "a", "n", "c", "e", "m", "e", "t", "e", "r", "s">>)
    @@ ("builder category" :> <<"b", "u", "i", "l", "d", "e", "r", " ", "c", "a", "t", "e", "g", "o", "r", "y">>)
    @@ ("category" :> <<"c", "a", "t", "e", "g", "o", "r", "y">>)
    @@ ("buildercategory" :> <<"b", "u", "i", "l", "d", "e", "r", "c", "a", "t", "e", "g", "o", "r", "y">>)
    @@ ("builder is physical" :> <<"b", "u", "i", "l", "d", "e", "r", " ", "i", "s", " ", "p", "h", "y", "s", "i", "c", "a", "l">>)
    @@ ("is physical" :> <<"i", "s", " ", "p", "h", "y", "s", "i", "c", "a", "l">>)
    @@ ("physical" :> <<"p", "h", "y", "s", "i", "c", "a", "l">>)
    @@ ("builderisphysical" :> <<"b", "u", "i", "l", "d", "e", "r", "i", "s", "p", "h", "y", "s", "i", "c", "a", "l">>)
    @@ ("all" :> <<"a", "l", "l">>)
    @@ ("all trucks" :> <<"a", "l", "l", " ", "t", "r", "u", "c", "k", "s">>)
    @@ ("truck 999" :> <<"t", "r", "u", "c", "k", " ", "9", "9", "9">>)
    @@ ("truck 777 2" :> <<"t", "r", "u", "c", "k", " ", "7", "7", "7", " ", "2">>)
    @@ ("haul" :> <<"h", "a", "u", "l">>)
    @@ ("truck" :> <<"t", "r", "u", "c", "k">>)
    @@ ("loader" :> <<"l", "o", "a", "d", "e", "r">>)
    @@ ("route" :> <<"r", "o", "u", "t", "e">>)
    @@ ("stockpile" :> <<"s", "t", "o", "c", "k", "p", "i", "l", "e">>)
    @@ ("mill" :> <<"m", "i", "l", "l">>)
    @@ ("layout" :> <<"l", "a", "y", "o", "u", "t">>)
    @@ ("cat" :> <<"c", "a", "t">>)
    @@ ("Mill" :> <<"M", "i", "l", "l">>)
    @@ ("bogus phrase" :> <<"b", "o", "g", "u", "s", " ", "p", "h", "r", "a", "s", "e">>)
    @@ ("assignedPath" :> <<"a", "s", "s", "i", "g", "n", "e", "d", "P", "a", "t", "h">>)
    @@ ("path_1" :> <<"p", "a", "t", "h", "_", "1">>)
    @@ ("haul_truck_cat_777_2" :> <<"h", "a", "u", "l", "_", "t", "r", "u", "c", "k", "_", "c", "a", "t", "_", "7", "7", "7", "_", "2">>)
    @@ ("HAUL TRUCK CAT 777 2" :> <<"H", "A", "U", "L", " ", "T", "R", "U", "C", "K", " ", "C", "A", "T", " ", "7", "7", "7", " ", "2">>)
    @@ ("truck777" :> <<"t", "r", "u", "c", "k", "7", "7", "7">>)
    @@ ("loader994" :> <<"l", "o", "a", "d", "e", "r", "9", "9", "4">>)
    @@ ("cat 777 5" :> <<"c", "a", "t", " ", "7", "7", "7", " ", "5">>)
    @@ ("Truck_56" :> <<"T", "r", "u", "c", "k", "_", "5", "6">>)
    @@ ("truck_56" :> <<"t", "r", "u", "c", "k", "_", "5", "6">>)
    @@ ("TRUCK 56" :> <<"T", "R", "U", "C", "K", " ", "5", "6">>)
    @@ ("truck 56" :> <<"t", "r", "u", "c", "k", " ", "5", "6">>)
    @@ ("ALL" :> <<"A", "L", "L">>)
    @@ ("payloadTonnes" :> <<"p", "a", "y", "l", "o", "a", "d", "T", "o", "n", "n", "e", "s">>)
    @@ ("snap" :> <<"s", "n", "a", "p">>)
    @@ ("tire pressure" :> <<"t", "i", "r", "e", " ", "p", "r", "e", "s", "s", "u", "r", "e">>)
    @@ ("PropertyExecutor" :> <<"P", "r", "o", "p", "e", "r", "t", "y", "E", "x", "e", "c", "u", "t", "o", "r">>)
\* END StrTab

Chars(s) == StrTab[s]

\* the string whose characters are cs
Str(cs) == CHOOSE s \in DOMAIN StrTab : StrTab[s] = cs

LowerTab ==
    ("A" :> "a") @@ ("B" :> "b") @@ ("C" :> "c") @@ ("D" :> "d") @@ ("E" :> "e")
    @@ ("F" :> "f") @@ ("G" :> "g") @@ ("H" :> "h") @@ ("I" :> "i") @@ ("J" :> "j")
    @@ ("K" :> "k") @@ ("L" :> "l") @@ ("M" :> "m") @@ ("N" :> "n") @@ ("O" :> "o")
    @@ ("P" :> "p") @@ ("Q" :> "q") @@ ("R" :> "r") @@ ("S" :> "s") @@ ("T" :> "t")
    @@ ("U" :> "u") @@ ("V" :> "v") @@ ("W" :> "w") @@ ("X" :> "x") @@ ("Y" :> "y")
    @@ ("Z" :> "z")

\* String.prototype.toLowerCase
toLowerCase(cs) ==
    [i \in 1..Len(cs) |-> IF cs[i] \in DOMAIN LowerTab THEN LowerTab[cs[i]] ELSE cs[i]]

\* String.prototype.includes
includes(cs, part) ==
    \E i \in 0..(Len(cs) - Len(part)) :
        \A j \in 1..Len(part) : cs[i + j] = part[j]

RECURSIVE removeAll(_, _)
\* cs without the characters of the set drop: replace(/[drop]+/g, "")
removeAll(cs, drop) ==
    IF cs = <<>> THEN <<>>
    ELSE IF Head(cs) \in drop THEN removeAll(Tail(cs), drop)
    ELSE <<Head(cs)>> \o removeAll(Tail(cs), drop)

----------------------------------------------------------------------------
(* Loading an entity from its persisted row *)

\* the entity type derived from the display name
entityTypeOf(dn) ==
    IF includes(dn, <<"H", "a", "u", "l", " ", "T", "r", "u", "c", "k">>) THEN "HaulTruck"
    ELSE IF includes(dn, <<"L", "o", "a", "d", "e", "r">>) THEN "Loader"
    ELSE IF includes(dn, <<"H", "a", "u", "l", "P", "a", "t", "h">>)
            \/ includes(dn, <<"P", "a", "t", "h">>) THEN "HaulRoute"
    ELSE IF includes(dn, <<"S", "t", "o", "c", "k", "p", "i", "l", "e">>) THEN "Stockpile"
    ELSE IF includes(dn, <<"M", "i", "n", "e", " ", "L", "a", "y", "o", "u", "t">>)
    THEN "MineLayout"
    ELSE IF removeAll(dn, {" "}) # <<>> THEN Str(removeAll(dn, {" "}))
    ELSE "Unknown"

entityType(displayName) == entityTypeOf(Chars(displayName))

mapToDomain(row) ==
    [id |-> row.id,
     displayName |-> row.displayName,
     contents |-> row.contents,
     type |-> entityType(row.displayName),
     properties |-> extractProperties(row.contents),
     relationships |-> extractRelationships(row.contents)]

----------------------------------------------------------------------------
(* DTDLModel *)

\* DTDLModel.getEntity(id) !== null
hasEntity(ents, id) == id \in DOMAIN ents

\* index of the first Property item named property (0 if none): Array.find
findProperty(contents, property) ==
    LET idx == {i \in 1..Len(contents) :
                   contents[i].type = "Property" /\ contents[i].name = property}
    IN  IF idx = {} THEN 0 ELSE CHOOSE i \in idx : \A j \in idx : i <= j

UpdateFailure(entityId, property, value, error) ==
    [success |-> FALSE, entityId |-> entityId, property |-> property,
     oldValue |-> Undef, newValue |-> value, error |-> error]

\* updateEntityProperty writing the cache only, the content list left as it was
updateEntityProperty_cacheOnly(ents, entityId, property, value) ==
    IF ~hasEntity(ents, entityId)
    THEN [result |-> UpdateFailure(entityId, property, value,
                        <<"Entity '", entityId, "' not found">>),
          entities |-> ents]
    ELSE IF property \notin DOMAIN ents[entityId].properties
    THEN [result |-> UpdateFailure(entityId, property, value,
                        <<"Property '", property, "' does not exist on entity '",
                          entityId, "'">>),
          entities |-> ents]
    ELSE [result |-> [success |-> TRUE, entityId |-> entityId,
                      property |-> property,
                      oldValue |-> ents[entityId].properties[property].value,
                      newValue |-> value, error |-> <<>>],
          entities |-> [ents EXCEPT ![entityId].properties[property].value = value]]

\* updateEntityProperty overwriting the item's initialValue along with its value
updateEntityProperty_resetsDefault(ents, entityId, property, value) ==
    IF ~hasEntity(ents, entityId)
    THEN [result |-> UpdateFailure(entityId, property, value,
                        <<"Entity '", entityId, "' not found">>),
          entities |-> ents]
    ELSE IF property \notin DOMAIN ents[entityId].properties
    THEN [result |-> UpdateFailure(entityId, property, value,
                        <<"Property '", property, "' does not exist on entity '",
                          entityId, "'">>),
          entities |-> ents]
    ELSE
        LET entity == ents[entityId]
            k == findProperty(entity.contents, property)
        IN  [result |-> [success |-> TRUE, entityId |-> entityId,
                         property |-> property,
                         oldValue |-> entity.properties[property].value,
                         newValue |-> value, error |-> <<>>],
             entities |-> [ents EXCEPT ![entityId] =
                 [entity EXCEPT
                    !.properties = [entity.properties EXCEPT ![property].value = value],
                    !.contents = IF k = 0 THEN entity.contents
                                 ELSE [entity.contents EXCEPT ![k].value = value,
                                                              ![k].initialValue = value]]]]

\* updateEntityProperty creating the cache entry of a property it does not find
updateEntityProperty_upsert(ents, entityId, property, value) ==
    IF ~hasEntity(ents, entityId)
    THEN [result |-> UpdateFailure(entityId, property, value,
                        <<"Entity '", entityId, "' not found">>),
          entities |-> ents]
    ELSE
        LET entity == ents[entityId]
            known == property \in DOMAIN entity.properties
            k == findProperty(entity.contents, property)
            entry == [value |-> value, type |-> "string", editable |-> BoolV(TRUE),
                      constraints |-> NoConstraints]
        IN  [result |-> [success |-> TRUE, entityId |-> entityId,
                         property |-> property,
                         oldValue |-> IF known THEN entity.properties[property].value
                                      ELSE Undef,
                         newValue |-> value, error |-> <<>>],
             entities |-> [ents EXCEPT ![entityId] =
                 [entity EXCEPT
                    !.properties =
                        IF known
                        THEN [entity.properties EXCEPT ![property].value = value]
                        ELSE [nm \in DOMAIN entity.properties \cup {property} |->
                                 IF nm = property THEN entry ELSE entity.properties[nm]],
                    !.contents = IF k = 0 THEN entity.contents
                                 ELSE [entity.contents EXCEPT ![k].value = value]]]]

\* updateEntityProperty writing the content item only, the cache left as it was
updateEntityProperty_itemOnly(ents, entityId, property, value) ==
    IF ~hasEntity(ents, entityId)
    THEN [result |-> UpdateFailure(entityId, property, value,
                        <<"Entity '", entityId, "' not found">>),
          entities |-> ents]
    ELSE IF property \notin DOMAIN ents[entityId].properties
    THEN [result |-> UpdateFailure(entityId, property, value,
                        <<"Property '", property, "' does not exist on entity '",
                          entityId, "'">>),
          entities |-> ents]
    ELSE
        LET entity == ents[entityId]
            oldValue == entity.properties[property].value
            k == findProperty(entity.contents, property)
            newProperties == entity.properties
            newContents == IF k = 0 THEN entity.contents
                           ELSE [entity.contents EXCEPT ![k].value = value]
        IN  [result |-> [success |-> TRUE, entityId |-> entityId,
                         property |-> property, oldValue |-> oldValue,
                         newValue |-> value, error |-> <<>>],
             entities |-> [ents EXCEPT ![entityId] =
                              [entity EXCEPT !.properties = newProperties,
                                             !.contents = newContents]]]

\* updateEntityProperty(entityId, property, value) on the model ents:
\* the returned UpdateResult and the model after the call
updateEntityProperty(ents, entityId, property, value) ==
    IF ~hasEntity(ents, entityId)
    THEN [result |-> UpdateFailure(entityId, property, value,
                        <<"Entity '", entityId, "' not found">>),
          entities |-> ents]
    ELSE IF property \notin DOMAIN ents[entityId].properties
    THEN [result |-> UpdateFailure(entityId, property, value,
                        <<"Property '", property, "' does not exist on entity '",
                          entityId, "'">>),
          entities |-> ents]
    ELSE
        LET entity == ents[entityId]
            oldValue == entity.properties[property].value
            k == findProperty(entity.contents, property)
            newProperties == [entity.properties EXCEPT ![property].value = value]
            newContents == IF k = 0 THEN entity.contents
                           ELSE [entity.contents EXCEPT ![k].value = value]
        IN  [result |-> [success |-> TRUE, entityId |-> entityId,
                         property |-> property, oldValue |-> oldValue,
                         newValue |-> value, error |-> <<>>],
             entities |-> [ents EXCEPT ![entityId] =
                              [entity EXCEPT !.properties = newProperties,
                                             !.contents = newContents]]]

\* new DTDLModel(list): the Map keyed by id
newDTDLModel(list) ==
    [id \in {list[i].id : i \in 1..Len(list)} |->
        list[CHOOSE i \in 1..Len(list) :
                /\ list[i].id = id
                /\ \A j \in 1..Len(list) : list[j].id = id => j <= i]]

----------------------------------------------------------------------------
(* The persisted rows a process can start from.  Property names are unique  *)
(* within one content list, as DTDL requires of an interface's contents.    *)

TruckA == "Haul_Truck_CAT_777_2"
TruckB == "Haul_Truck_CAT_777_20"
LoaderA == "Loader_CAT_994_1"

Focus == "focusSnapDistanceMeters"
Category == "builderCategory"

FocusSet == PropertyItem(Focus, "double", NumV(200 * Scale), NumV(100 * Scale), Undef)
FocusDefaultOnly == PropertyItem(Focus, "double", Undef, NumV(100 * Scale), Undef)
FocusBare == PropertyItem(Focus, "double", Undef, Undef, Undef)
CategoryFixed == PropertyItem(Category, "string", StrV("HaulTruck"), Undef, BoolV(FALSE))
OnPath == RelationshipItem("assignedPath", "path_1")
SpeedTelemetry == TelemetryItem("speedMph", "double")

ContentLists ==
    { <<FocusSet, OnPath, SpeedTelemetry>>,
      <<FocusDefaultOnly, CategoryFixed>>,
      <<SpeedTelemetry, CategoryFixed, FocusBare>>,
      <<OnPath, SpeedTelemetry>> }

Row(id, displayName, contents) ==
    [id |-> id, displayName |-> displayName, contents |-> contents]

\* initializeDTDLModel: the model built from the rows of the store
loadModel(rows) == newDTDLModel([i \in 1..Len(rows) |-> mapToDomain(rows[i])])

rowIds(rows) == [i \in 1..Len(rows) |-> rows[i].id]

----------------------------------------------------------------------------
(* Specification SpecModel: direct calls of DTDLModel.updateEntityProperty *)

MaxCalls == 2

NoResult == [success |-> FALSE, entityId |-> "", property |-> "",
             oldValue |-> Undef, newValue |-> Undef, error |-> <<>>]
NoValidation == [valid |-> FALSE, error |-> <<>>]
NoInput == [has |-> FALSE]
NoCommands == <<>>
NoStore == [id \in {} |-> <<>>]
NoWriter == [p \in {} |-> 0]
NoCall == [has |-> FALSE]
NoReturn == <<>>
NoExecutors == <<>>

CallIds == {TruckA, TruckB, LoaderA}
CallProperties == {Focus, Category, "speedMph"}
CallValues == {NumV(300 * Scale), NumV(100 * Scale), StrV("Loader")}

InitModel ==
    /\ \E c1 \in ContentLists, c2 \in ContentLists :
          LET rows == <<Row(TruckA, "Haul Truck CAT 777", c1),
                        Row(TruckB, "Haul Truck CAT 777", c2)>>
          IN  /\ entities = loadModel(rows)
              /\ order = rowIds(rows)
    /\ calls = 0
    /\ res = NoResult
    /\ vin = NoInput
    /\ vout = NoValidation
    /\ cmds = NoCommands
    /\ db = NoStore
    /\ writer = NoWriter
    /\ rin = NoCall
    /\ rout = NoReturn
    /\ executors = NoExecutors
    /\ registered = NoExecutors

UpdateProperty ==
    /\ calls < MaxCalls
    /\ \E entityId \in CallIds, property \in CallProperties, value \in CallValues :
          LET r == updateEntityProperty(entities, entityId, property, value)
          IN  /\ entities' = r.entities
              /\ res' = r.result
    /\ calls' = calls + 1
    /\ UNCHANGED <<executors, registered, order, vin, vout, cmds, db, writer, rin, rout>>

NextModel == UpdateProperty

SpecModel == InitModel /\ [][NextModel]_vars

----------------------------------------------------------------------------
(* UpdateValidator *)

NoRow == [has |-> FALSE, minValue |-> Undef, maxValue |-> Undef,
          readOnly |-> FALSE, editable |-> FALSE, allowedValues |-> NoAllowed]

ConstraintRow(minValue, maxValue, readOnly, editable, allowedValues) ==
    [has |-> TRUE, minValue |-> minValue, maxValue |-> maxValue,
     readOnly |-> readOnly, editable |-> editable, allowedValues |-> allowedValues]

\* constraintRepository.getConstraint(entityType, property) on the rows of store
getConstraint(store, entityTypeName, property) ==
    IF <<entityTypeName, property>> \in DOMAIN store
    THEN store[<<entityTypeName, property>>]
    ELSE NoRow

\* a ?? b
Coalesce(a, b) == IF a # Undef THEN a ELSE b

\* Array.prototype.includes on the array vals
inArray(vals, v) == \E i \in 1..Len(vals) : vals[i] = v

\* 3. the cached definition is flagged read-only
readOnlyError(propertyDef, property) ==
    IF propertyDef.constraints.has /\ propertyDef.constraints.readOnly = BoolV(TRUE)
    THEN <<"Property '", property, "' is read-only">>
    ELSE <<>>

\* the editability check reading the cached flag even when a row exists
editableError_cachedFlagToo(propertyDef, constraint, property) ==
    IF \/ constraint.has /\ (constraint.readOnly \/ ~constraint.editable)
       \/ propertyDef.editable = BoolV(FALSE)
    THEN <<"Property '", property, "' is not editable">>
    ELSE <<>>

\* 3. the constraint row's flags, or without a row the cached editable flag
editableError(propertyDef, constraint, property) ==
    IF constraint.has
    THEN IF constraint.readOnly \/ ~constraint.editable
         THEN <<"Property '", property, "' is not editable">>
         ELSE <<>>
    ELSE IF propertyDef.editable = BoolV(FALSE)
         THEN <<"Property '", property, "' is not editable">>
         ELSE <<>>

\* 4. the runtime type of the value against the declared type
typeError(propertyDef, property, newValue) ==
    IF propertyDef.type = "number" /\ TypeOf(newValue) # "number"
    THEN <<"Property '", property, "' must be a number, got ", TypeOf(newValue)>>
    ELSE IF propertyDef.type = "string" /\ TypeOf(newValue) # "string"
    THEN <<"Property '", property, "' must be a string, got ", TypeOf(newValue)>>
    ELSE IF propertyDef.type = "boolean" /\ TypeOf(newValue) # "boolean"
    THEN <<"Property '", property, "' must be a boolean, got ", TypeOf(newValue)>>
    ELSE <<>>

\* the range check with both bounds exclusive
rangeError_exclusive(propertyDef, constraint, newValue) ==
    IF propertyDef.type # "number" THEN <<>>
    ELSE
        LET minValue == Coalesce(constraint.minValue, propertyDef.constraints.min)
            maxValue == Coalesce(constraint.maxValue, propertyDef.constraints.max)
        IN  IF minValue # Undef /\ newValue.n <= minValue.n
            THEN <<"Value ", newValue, " is below minimum ", minValue>>
            ELSE IF maxValue # Undef /\ newValue.n >= maxValue.n
            THEN <<"Value ", newValue, " is above maximum ", maxValue>>
            ELSE <<>>

\* 5. for a number, the bounds of the row, else of the cached definition
rangeError(propertyDef, constraint, newValue) ==
    IF propertyDef.type # "number" THEN <<>>
    ELSE
        LET minValue == Coalesce(constraint.minValue, propertyDef.constraints.min)
            maxValue == Coalesce(constraint.maxValue, propertyDef.constraints.max)
        IN  IF minValue # Undef /\ newValue.n < minValue.n
            THEN <<"Value ", newValue, " is below minimum ", minValue>>
            ELSE IF maxValue # Undef /\ newValue.n > maxValue.n
            THEN <<"Value ", newValue, " is above maximum ", maxValue>>
            ELSE <<>>

\* 6. the allowed values of the row, else of the cached definition
allowedError(propertyDef, constraint, newValue) ==
    LET allowedValues == IF constraint.allowedValues.has
                         THEN constraint.allowedValues
                         ELSE propertyDef.constraints.allowedValues
    IN  IF allowedValues.has /\ ~inArray(allowedValues.vals, newValue)
        THEN <<"Value '", newValue, "' is not in allowed values: ", allowedValues.vals>>
        ELSE <<>>

Invalid(error) == [valid |-> FALSE, error |-> error]
Valid == [valid |-> TRUE, error |-> <<>>]

\* validate checking the type of the value before the editability of the property
validate_typeFirst(store, entity, property, newValue) ==
    IF property \notin DOMAIN entity.properties
    THEN Invalid(<<"Property '", property, "' does not exist on entity '",
                   entity.id, "'">>)
    ELSE
        LET entityTypeName == IF entity.type = "" THEN "Unknown" ELSE entity.type
            constraint == getConstraint(store, entityTypeName, property)
            propertyDef == entity.properties[property]
        IN  IF typeError(propertyDef, property, newValue) # <<>>
            THEN Invalid(typeError(propertyDef, property, newValue))
            ELSE IF readOnlyError(propertyDef, property) # <<>>
            THEN Invalid(readOnlyError(propertyDef, property))
            ELSE IF editableError(propertyDef, constraint, property) # <<>>
            THEN Invalid(editableError(propertyDef, constraint, property))
            ELSE IF rangeError(propertyDef, constraint, newValue) # <<>>
            THEN Invalid(rangeError(propertyDef, constraint, newValue))
            ELSE IF allowedError(propertyDef, constraint, newValue) # <<>>
            THEN Invalid(allowedError(propertyDef, constraint, newValue))
            ELSE Valid

\* UpdateValidator.validate(entity, property, newValue) with the constraint
\* rows of store
validate(store, entity, property, newValue) ==
    IF property \notin DOMAIN entity.properties
    THEN Invalid(<<"Property '", property, "' does not exist on entity '",
                   entity.id, "'">>)
    ELSE
        LET entityTypeName == IF entity.type = "" THEN "Unknown" ELSE entity.type
            constraint == getConstraint(store, entityTypeName, property)
            propertyDef == entity.properties[property]
        IN  IF readOnlyError(propertyDef, property) # <<>>
            THEN Invalid(readOnlyError(propertyDef, property))
            ELSE IF editableError(propertyDef, constraint, property) # <<>>
            THEN Invalid(editableError(propertyDef, constraint, property))
            ELSE IF typeError(propertyDef, property, newValue) # <<>>
            THEN Invalid(typeError(propertyDef, property, newValue))
            ELSE IF rangeError(propertyDef, constraint, newValue) # <<>>
            THEN Invalid(rangeError(propertyDef, constraint, newValue))
            ELSE IF allowedError(propertyDef, constraint, newValue) # <<>>
            THEN Invalid(allowedError(propertyDef, constraint, newValue))
            ELSE Valid

----------------------------------------------------------------------------
(* Specification SpecValidate: UpdateValidator.validate applied to inputs   *)
(* drawn from the entities, constraint rows and values below.               *)

Allowed(vals) == [has |-> TRUE, vals |-> vals]

DeclaredConstraints(min, max, allowedValues, readOnly) ==
    [has |-> TRUE, min |-> min, max |-> max,
     allowedValues |-> allowedValues, readOnly |-> readOnly]

ValDefConstraints ==
    { NoConstraints,
      DeclaredConstraints(NumV(0), NumV(100 * Scale), NoAllowed, Undef),
      DeclaredConstraints(Undef, Undef, NoAllowed, BoolV(TRUE)),
      DeclaredConstraints(Undef, Undef,
                          Allowed(<<NumV(0), NumV(50 * Scale), StrV("a")>>), Undef) }

ValDefs ==
    { [value |-> NumV(200 * Scale), type |-> ty, editable |-> ed, constraints |-> c] :
          ty \in {"number", "string", "boolean"},
          ed \in {BoolV(TRUE), BoolV(FALSE), Undef},
          c \in ValDefConstraints }

ValRows ==
    { NoRow,
      ConstraintRow(NumV(0), NumV(100 * Scale), FALSE, TRUE, NoAllowed),
      ConstraintRow(NumV(0), NumV(10000 * Scale), FALSE, TRUE, NoAllowed),
      ConstraintRow(Undef, Undef, FALSE, TRUE, NoAllowed),
      ConstraintRow(Undef, Undef, TRUE, FALSE, NoAllowed),
      ConstraintRow(Undef, Undef, FALSE, FALSE, NoAllowed),
      ConstraintRow(Undef, Undef, FALSE, TRUE,
                    Allowed(<<NumV(100 * Scale), StrV("b")>>)) }

ValValues ==
    { NumV(-10 * Scale), NumV(0), NumV(50 * Scale), NumV(100 * Scale),
      NumV(100 * Scale + 1), StrV("a"), BoolV(TRUE) }

NoProperties == [nm \in {} |-> NoConstraints]

ValEntity(properties) ==
    [id |-> TruckA, displayName |-> "Haul Truck CAT 777", contents |-> <<>>,
     type |-> "HaulTruck", properties |-> properties,
     relationships |-> [nm \in {} |-> ""]]

ValStore(row) ==
    IF row.has THEN [k \in {<<"HaulTruck", Focus>>} |-> row]
    ELSE [k \in {} |-> NoRow]

InitValidate ==
    /\ entities = newDTDLModel(<<>>)
    /\ order = <<>>
    /\ calls = 0
    /\ res = NoResult
    /\ \E properties \in {NoProperties} \cup {[nm \in {Focus} |-> d] : d \in ValDefs},
          row \in ValRows, newValue \in ValValues :
          vin = [has |-> TRUE, store |-> ValStore(row),
                 entity |-> ValEntity(properties), property |-> Focus,
                 value |-> newValue]
    /\ vout = NoValidation
    /\ cmds = NoCommands
    /\ db = NoStore
    /\ writer = NoWriter
    /\ rin = NoCall
    /\ rout = NoReturn
    /\ executors = NoExecutors
    /\ registered = NoExecutors

Validate ==
    /\ vin.has
    /\ vout = NoValidation
    /\ vout' = validate(vin.store, vin.entity, vin.property, vin.value)
    /\ UNCHANGED <<executors, registered, entities, order, calls, res, vin, cmds, db, writer, rin, rout>>

NextValidate == Validate

SpecValidate == InitValidate /\ [][NextValidate]_vars

----------------------------------------------------------------------------
(* EntityResolver.  An intermediate value of the code (normalized, parts,  *)
(* typeMatch, keyParts) is a parameter of the operator that uses it.       *)

Digits == {"0", "1", "2", "3", "4", "5", "6", "7", "8", "9"}
Letters ==
    {"a", "b", "c", "d", "e", "f", "g", "h", "i", "j", "k", "l", "m",
     "n", "o", "p", "q", "r", "s", "t", "u", "v", "w", "x", "y", "z",
     "A", "B", "C", "D", "E", "F", "G", "H", "I", "J", "K", "L", "M",
     "N", "O", "P", "Q", "R", "S", "T", "U", "V", "W", "X", "Y", "Z"}
Whitespace == {" "}

isDigits(cs) == \A i \in 1..Len(cs) : cs[i] \in Digits

startsWith(cs, p) ==
    Len(p) <= Len(cs) /\ \A i \in 1..Len(p) : cs[i] = p[i]

dropFirst(cs, n) == SubSeq(cs, n + 1, Len(cs))

RECURSIVE whitespaceToUnderscore(_)
\* replace(/\s+/g, "_"): every run of whitespace becomes one underscore
whitespaceToUnderscore(cs) ==
    IF cs = <<>> THEN <<>>
    ELSE IF Head(cs) \in Whitespace
    THEN IF Len(cs) > 1 /\ cs[2] \in Whitespace
         THEN whitespaceToUnderscore(Tail(cs))
         ELSE <<"_">> \o whitespaceToUnderscore(Tail(cs))
    ELSE <<Head(cs)>> \o whitespaceToUnderscore(Tail(cs))

\* reference.toLowerCase().replace(/\s+/g, "_").trim()
normalizeReference(cs) == whitespaceToUnderscore(toLowerCase(cs))

RECURSIVE splitOn(_, _, _)
\* split(/[seps]+/).filter(p => p.length > 0), cur being the part under way
splitOn(cs, seps, cur) ==
    IF cs = <<>> THEN (IF cur = <<>> THEN <<>> ELSE <<cur>>)
    ELSE IF Head(cs) \in seps
    THEN (IF cur = <<>> THEN <<>> ELSE <<cur>>) \o splitOn(Tail(cs), seps, <<>>)
    ELSE splitOn(Tail(cs), seps, Append(cur, Head(cs)))

\* the least number of a non-empty set of numbers
least(S) == CHOOSE i \in S : \A j \in S : i <= j

\* the first id of ord that is in the set matching ("" if none): Array.find
firstOf(ord, matching) ==
    IF \A i \in 1..Len(ord) : ord[i] \notin matching THEN ""
    ELSE ord[least({i \in 1..Len(ord) : ord[i] \in matching})]

lowerId(id) == toLowerCase(Chars(id))

\* the type words of the pattern and the type name of each
TypeWords ==
    <<[word |-> <<"t", "r", "u", "c", "k">>, typeName |-> "HaulTruck"],
      [word |-> <<"l", "o", "a", "d", "e", "r">>, typeName |-> "Loader"],
      [word |-> <<"r", "o", "u", "t", "e">>, typeName |-> "HaulRoute"],
      [word |-> <<"s", "t", "o", "c", "k", "p", "i", "l", "e">>, typeName |-> "Stockpile"],
      [word |-> <<"m", "i", "l", "l">>, typeName |-> "Mill"],
      [word |-> <<"l", "a", "y", "o", "u", "t">>, typeName |-> "MineLayout"]>>

NoIdentifier == [ok |-> FALSE, identifier |-> <<>>, subIdentifier |-> <<>>]

\* the length of the longest prefix of letters of cs
lettersAhead(cs) ==
    IF \A i \in 1..Len(cs) : cs[i] \in Letters THEN Len(cs)
    ELSE least({i \in 1..Len(cs) : cs[i] \notin Letters}) - 1

\* (\d+|[a-z]+)(\s*(\d+))?$ on cs, a string without whitespace, n being
\* the length of its prefix of letters
identifierAt(cs, n) ==
    IF cs # <<>> /\ isDigits(cs)
    THEN [ok |-> TRUE, identifier |-> cs, subIdentifier |-> <<>>]
    ELSE IF n > 0 /\ isDigits(dropFirst(cs, n))
    THEN [ok |-> TRUE, identifier |-> SubSeq(cs, 1, n), subIdentifier |-> dropFirst(cs, n)]
    ELSE NoIdentifier

matchIdentifier(cs) == identifierAt(cs, lettersAhead(cs))

NoTypeMatch == [ok |-> FALSE, typeName |-> "", identifier |-> <<>>, subIdentifier |-> <<>>]

\* the groups of the match: the type name, identifier and subIdentifier
typeMatchGroups(typeName, m) ==
    IF m.ok
    THEN [ok |-> TRUE, typeName |-> typeName, identifier |-> m.identifier,
          subIdentifier |-> m.subIdentifier]
    ELSE NoTypeMatch

\* (cat\s*)?(\d+|[a-z]+)(\s*(\d+))?$ on rest: "cat" is taken when the rest
\* matches after it, and left to the identifier otherwise
typeMatchRest(typeName, rest) ==
    typeMatchGroups(typeName,
        IF startsWith(rest, <<"c", "a", "t">>) /\ matchIdentifier(dropFirst(rest, 3)).ok
        THEN matchIdentifier(dropFirst(rest, 3))
        ELSE matchIdentifier(rest))

\* (truck|loader|route|stockpile|mill|layout) at the head of cs, words being
\* the numbers of the type words cs starts with
typeMatchWord(cs, words) ==
    IF words = {} THEN NoTypeMatch
    ELSE typeMatchRest(TypeWords[least(words)].typeName,
                       dropFirst(cs, Len(TypeWords[least(words)].word)))

\* normalized.match(/^(haul\s*)?(truck|loader|route|stockpile|mill|layout)\s*
\*                   (cat\s*)?(\d+|[a-z]+)(\s*(\d+))?$/i)
\* normalized holds no whitespace, so every \s* matches the empty string;
\* afterHaul is normalized past an optional "haul"
typeMatchAfterHaul(afterHaul) ==
    typeMatchWord(afterHaul,
                  {i \in 1..Len(TypeWords) : startsWith(afterHaul, TypeWords[i].word)})

typeMatch(normalized) ==
    typeMatchAfterHaul(IF startsWith(normalized, <<"h", "a", "u", "l">>)
                       THEN dropFirst(normalized, 4) ELSE normalized)

\* /[a-z]{2,}/i matches somewhere in cs
hasTwoLetters(cs) ==
    \E i \in 1..(Len(cs) - 1) : cs[i] \in Letters /\ cs[i + 1] \in Letters

\* the parts kept by the fuzzy stage (a numeric part being a string of digits)
keyPartsOf(parts) ==
    LET Keep(part) == (Len(part) > 1 /\ isDigits(part)) \/ hasTwoLetters(part)
    IN  SelectSeq(parts, Keep)

\* model.getEntity(normalized)
normalizedMatch(normalized, ents, ord) ==
    firstOf(ord, {id \in DOMAIN ents : Chars(id) = normalized})

\* allEntities.find(e => e.id.toLowerCase() === normalized)
caseInsensitiveMatch(normalized, ents, ord) ==
    firstOf(ord, {id \in DOMAIN ents : lowerId(id) = normalized})

\* the entity whose lowercased id includes every part
partialMatch(parts, ents, ord) ==
    IF Len(parts) = 0 THEN ""
    ELSE firstOf(ord, {id \in DOMAIN ents :
                          \A i \in 1..Len(parts) : includes(lowerId(id), parts[i])})

\* the entity of the type of the match whose lowercased id includes the
\* identifier and, when there is one, the subIdentifier
typedMatch(tm, ents, ord) ==
    IF ~tm.ok THEN ""
    ELSE firstOf(ord, {id \in DOMAIN ents :
                          /\ ents[id].type = tm.typeName
                          /\ includes(lowerId(id), toLowerCase(tm.identifier))
                          /\ tm.subIdentifier # <<>> =>
                                includes(lowerId(id), toLowerCase(tm.subIdentifier))})

\* the entity whose lowercased id includes Math.min(2, keyParts.length) key parts
fuzzyMatch(keyParts, ents, ord) ==
    IF Len(keyParts) = 0 THEN ""
    ELSE firstOf(ord, {id \in DOMAIN ents :
                          Cardinality({i \in 1..Len(keyParts) :
                                          includes(lowerId(id), keyParts[i])})
                             >= (IF Len(keyParts) < 2 THEN Len(keyParts) ELSE 2)})

\* stagesOf consulting the typed-identifier stage before the partial one
stagesOf_typedFirst(reference, normalized, parts, ents, ord) ==
    <<IF reference \in DOMAIN ents THEN reference ELSE "",
      normalizedMatch(normalized, ents, ord),
      caseInsensitiveMatch(normalized, ents, ord),
      typedMatch(typeMatch(normalized), ents, ord),
      partialMatch(parts, ents, ord),
      fuzzyMatch(keyPartsOf(parts), ents, ord)>>

\* stagesOf without the case-insensitive stage
stagesOf_caseSensitive(reference, normalized, parts, ents, ord) ==
    <<IF reference \in DOMAIN ents THEN reference ELSE "",
      normalizedMatch(normalized, ents, ord),
      "",
      partialMatch(parts, ents, ord),
      typedMatch(typeMatch(normalized), ents, ord),
      fuzzyMatch(keyPartsOf(parts), ents, ord)>>

\* what each of the six stages finds ("" for nothing).  The stages are
\* functions of the reference and the model, so the code, which stops at
\* the first stage that finds an entity, returns the first of these.
stagesOf(reference, normalized, parts, ents, ord) ==
    <<IF reference \in DOMAIN ents THEN reference ELSE "",
      normalizedMatch(normalized, ents, ord),
      caseInsensitiveMatch(normalized, ents, ord),
      partialMatch(parts, ents, ord),
      typedMatch(typeMatch(normalized), ents, ord),
      fuzzyMatch(keyPartsOf(parts), ents, ord)>>

firstFound(found) ==
    IF \A i \in 1..Len(found) : found[i] = "" THEN [id |-> "", stage |-> 0]
    ELSE [id |-> found[least({i \in 1..Len(found) : found[i] # ""})],
          stage |-> least({i \in 1..Len(found) : found[i] # ""})]

resolveNormalized(reference, normalized, ents, ord) ==
    firstFound(stagesOf(reference, normalized,
                        splitOn(normalized, {"_"} \cup Whitespace, <<>>), ents, ord))

\* EntityResolver.resolve(reference, model): the id found and the stage that
\* found it (stage 0 and id "": EntityNotFoundError)
resolve(reference, ents, ord) ==
    resolveNormalized(reference, normalizeReference(Chars(reference)), ents, ord)

NoFilter == [type |-> "", relationship |-> [has |-> FALSE, name |-> "", targetId |-> ""]]
TypeFilter(type) == [NoFilter EXCEPT !.type = type]

\* [this.resolve(reference, model)], or the code of the error it throws
singleEntity(r) ==
    IF r.stage = 0 THEN [code |-> "ENTITY_NOT_FOUND", entities |-> <<>>]
    ELSE [code |-> "", entities |-> <<r.id>>]

\* resolveBulk applying the type filter only
resolveBulk_typeOnly(reference, ents, ord, filter) ==
    IF includes(toLowerCase(Chars(reference)), <<"a", "l", "l">>)
    THEN
        LET Keep(id) == filter.type # "" => ents[id].type = filter.type
        IN  [code |-> "", entities |-> SelectSeq(ord, Keep)]
    ELSE singleEntity(resolve(reference, ents, ord))

\* EntityResolver.resolveBulk(reference, model, filter): the ids of the
\* entities, or the code of the error thrown
resolveBulk(reference, ents, ord, filter) ==
    IF includes(toLowerCase(Chars(reference)), <<"a", "l", "l">>)
    THEN
        LET Keep(id) ==
                /\ filter.type # "" => ents[id].type = filter.type
                /\ filter.relationship.has =>
                      /\ filter.relationship.name \in DOMAIN ents[id].relationships
                      /\ ents[id].relationships[filter.relationship.name] =
                            filter.relationship.targetId
        IN  [code |-> "", entities |-> SelectSeq(ord, Keep)]
    ELSE singleEntity(resolve(reference, ents, ord))

----------------------------------------------------------------------------
(* PropertyResolver.  The units of engineTemp are written degF.  The         *)
(* suggestions of a failed resolution are left out of the result.            *)

TELEMETRY_FIELDS ==
    <<
       [name |-> "status", type |-> "string", units |-> ""],
       [name |-> "truckId", type |-> "string", units |-> ""],
       [name |-> "haulPathId", type |-> "string", units |-> ""],
       [name |-> "haulPhase", type |-> "string", units |-> ""],
       [name |-> "speedMph", type |-> "number", units |-> "mph"],
       [name |-> "posX", type |-> "number", units |-> ""],
       [name |-> "posY", type |-> "number", units |-> ""],
       [name |-> "posZ", type |-> "number", units |-> ""],
       [name |-> "headingDeg", type |-> "number", units |-> "degrees"],
       [name |-> "payload", type |-> "number", units |-> "tonnes"],
       [name |-> "engineTemp", type |-> "number", units |-> "degF"],
       [name |-> "fuelLevel", type |-> "number", units |-> "%"],
       [name |-> "fuelConsumptionRate", type |-> "number", units |-> ""],
       [name |-> "brakePedalPos", type |-> "number", units |-> "%"],
       [name |-> "throttlePos", type |-> "number", units |-> "%"],
       [name |-> "vibrationLevel", type |-> "number", units |-> ""],
       [name |-> "tirePressureFL", type |-> "number", units |-> "psi"],
       [name |-> "tirePressureFR", type |-> "number", units |-> "psi"],
       [name |-> "tirePressureRLO", type |-> "number", units |-> "psi"],
       [name |-> "tirePressureRLI", type |-> "number", units |-> "psi"],
       [name |-> "tirePressureRRO", type |-> "number", units |-> "psi"],
       [name |-> "tirePressureRRI", type |-> "number", units |-> "psi"]
    >>

PROPERTY_NAME_VARIATIONS ==
    <<
       [name |-> "haulPathId", variations |-> <<"haul path id", "haul path", "path id", "pathid", "route id", "routeid", "current path">>],
       [name |-> "haulPhase", variations |-> <<"haul phase", "phase", "current phase">>],
       [name |-> "speedMph", variations |-> <<"speed", "current speed", "speed mph", "velocity">>],
       [name |-> "maxSpeedKph", variations |-> <<"speed limit", "max speed", "maximum speed", "maxspeed">>],
       [name |-> "status", variations |-> <<"status", "current status", "state", "equipment status">>],
       [name |-> "engineTemp", variations |-> <<"engine temperature", "engine temp", "temperature", "enginetemp">>],
       [name |-> "fuelLevel", variations |-> <<"fuel level", "fuel", "fuellevel", "fuel percentage">>],
       [name |-> "fuelConsumptionRate", variations |-> <<"fuel consumption", "fuel consumption rate", "fuel rate">>],
       [name |-> "posX", variations |-> <<"position x", "x position", "x coordinate", "pos x">>],
       [name |-> "posY", variations |-> <<"position y", "y position", "y coordinate", "pos y">>],
       [name |-> "posZ", variations |-> <<"position z", "z position", "z coordinate", "pos z", "altitude">>],
       [name |-> "headingDeg", variations |-> <<"heading", "direction", "heading degrees", "headingdeg">>],
       [name |-> "payload", variations |-> <<"payload", "load", "weight", "tonnage">>],
       [name |-> "focusSnapDistanceMeters", variations |-> <<"focus snap distance", "snap distance", "focus distance", "focussnapdistancemeters">>],
       [name |-> "builderCategory", variations |-> <<"builder category", "category", "buildercategory">>],
       [name |-> "builderIsPhysical", variations |-> <<"builder is physical", "is physical", "physical", "builderisphysical">>]
    >>

\* name.toLowerCase().trim().replace(/[_\s-]+/g, "").replace(/\s+/g, "")
normalizePropertyName(cs) == removeAll(toLowerCase(cs), {"_", "-"} \cup Whitespace)

\* PROPERTY_NAME_VARIATIONS[propName] || []
variationsOf(propName) ==
    IF \A i \in 1..Len(PROPERTY_NAME_VARIATIONS) : PROPERTY_NAME_VARIATIONS[i].name # propName
    THEN <<>>
    ELSE PROPERTY_NAME_VARIATIONS[
             CHOOSE i \in 1..Len(PROPERTY_NAME_VARIATIONS) :
                 PROPERTY_NAME_VARIATIONS[i].name = propName].variations

\* variations.some(v => normalizePropertyName(v) === normalizedName)
someVariation(variations, normalizedName) ==
    \E i \in 1..Len(variations) :
        normalizePropertyName(Chars(variations[i])) = normalizedName

NotResolved == [success |-> FALSE,
                property |-> [name |-> "", type |-> "", units |-> "", source |-> "",
                              value |-> Undef, initialValue |-> Undef,
                              writable |-> FALSE]]

createDTDLPropertyInfo(content) ==
    [name |-> content.name,
     type |-> IF content.schema \in {"double", "float", "int"} THEN "number"
              ELSE IF content.schema = "boolean" THEN "boolean"
              ELSE IF content.schema = "Array" THEN "array"
              ELSE IF content.schema = "Object" THEN "object"
              ELSE "string",
     units |-> "",
     source |-> "dtdl",
     value |-> OrElse(content.value, content.initialValue),
     initialValue |-> content.initialValue,
     writable |-> content.writable # BoolV(FALSE)]

telemetryPropertyInfo(name, field) ==
    [name |-> name, type |-> field.type, units |-> field.units,
     source |-> "telemetry", value |-> Undef, initialValue |-> Undef,
     writable |-> FALSE]

\* the three tests of findPropertyInDTDL on the characters of a property name
nameMatches(propChars, variations, normalizedName) ==
    \/ normalizePropertyName(propChars) = normalizedName
    \/ someVariation(variations, normalizedName)
    \/ includes(toLowerCase(propChars), normalizedName)
    \/ includes(normalizedName, toLowerCase(propChars))

\* the result for the items numbered idx, the matching Property items
dtdlResultOf(contents, idx) ==
    IF idx = {} THEN NotResolved
    ELSE [success |-> TRUE, property |-> createDTDLPropertyInfo(contents[least(idx)])]

\* the first Property item of the content list that matches the normalized
\* name exactly, by a known variation or by containment
findPropertyInDTDL(entity, normalizedName) ==
    dtdlResultOf(entity.contents,
        {i \in 1..Len(entity.contents) :
            /\ entity.contents[i].type = "Property"
            /\ nameMatches(Chars(entity.contents[i].name),
                           variationsOf(entity.contents[i].name), normalizedName)})

\* TELEMETRY_FIELDS[name]
telemetryField(name) ==
    TELEMETRY_FIELDS[CHOOSE i \in 1..Len(TELEMETRY_FIELDS) :
                         TELEMETRY_FIELDS[i].name = name]

\* the result for the fields of the exact name, the variation entries that
\* name a field and the fields matching by containment
telemetryResultOf(exact, byVariation, partial) ==
    IF exact # {}
    THEN [success |-> TRUE,
          property |-> telemetryPropertyInfo(TELEMETRY_FIELDS[least(exact)].name,
                                             TELEMETRY_FIELDS[least(exact)])]
    ELSE IF byVariation # {}
    THEN [success |-> TRUE,
          property |-> telemetryPropertyInfo(
              PROPERTY_NAME_VARIATIONS[least(byVariation)].name,
              telemetryField(PROPERTY_NAME_VARIATIONS[least(byVariation)].name))]
    ELSE IF partial # {}
    THEN [success |-> TRUE,
          property |-> telemetryPropertyInfo(TELEMETRY_FIELDS[least(partial)].name,
                                             TELEMETRY_FIELDS[least(partial)])]
    ELSE NotResolved

\* fieldName.toLowerCase().includes(normalizedName) ||
\* normalizedName.includes(fieldName.toLowerCase())
containsEither(lowerName, normalizedName) ==
    includes(lowerName, normalizedName) \/ includes(normalizedName, lowerName)

\* the telemetry field of the normalized name: a field of that very name,
\* else the first variation entry naming a telemetry field, else the first
\* field containing the name or contained in it
findPropertyInTelemetry(normalizedName) ==
    telemetryResultOf(
        {i \in 1..Len(TELEMETRY_FIELDS) :
            Chars(TELEMETRY_FIELDS[i].name) = normalizedName},
        {i \in 1..Len(PROPERTY_NAME_VARIATIONS) :
            /\ someVariation(PROPERTY_NAME_VARIATIONS[i].variations, normalizedName)
            /\ \E k \in 1..Len(TELEMETRY_FIELDS) :
                  TELEMETRY_FIELDS[k].name = PROPERTY_NAME_VARIATIONS[i].name},
        {i \in 1..Len(TELEMETRY_FIELDS) :
            containsEither(lowerId(TELEMETRY_FIELDS[i].name), normalizedName)})

\* the DTDL result when it succeeded, else the telemetry result
firstSuccess(dtdlResult, telemetryResult) ==
    IF dtdlResult.success THEN dtdlResult
    ELSE IF telemetryResult.success THEN telemetryResult
    ELSE NotResolved

resolveNormalizedProperty(entity, normalized) ==
    firstSuccess(findPropertyInDTDL(entity, normalized),
                 findPropertyInTelemetry(normalized))

\* PropertyResolver.resolveProperty(entity, naturalLanguageName)
resolveProperty(entity, naturalLanguageName) ==
    resolveNormalizedProperty(entity, normalizePropertyName(Chars(naturalLanguageName)))

----------------------------------------------------------------------------
(* SchemaResolver.resolveCommand *)

\* the DomainError thrown: its code and its message
CommandFailed(code, message) ==
    [code |-> code, message |-> message, targetEntities |-> <<>>,
     property |-> NotResolved.property, value |-> Undef, scope |-> ""]

entityNotFound(intent) ==
    CommandFailed("ENTITY_NOT_FOUND", <<"Entity '", intent.targetEntity, "' not found">>)

noEntitiesFound(intent) ==
    CommandFailed("ENTITY_NOT_FOUND",
                  <<"No entities found matching '", intent.targetEntity, "'">>)

\* the list of suggested names appended to the message is left out
propertyNotFound(intent) ==
    CommandFailed("PROPERTY_NOT_FOUND",
                  <<"Property '", intent.property,
                    "' not found in DTDL model or telemetry schema", ".">>)

propertyNotEditable(intent) ==
    CommandFailed("PROPERTY_NOT_EDITABLE",
                  <<"Property '", intent.property,
                    "' is a telemetry field and cannot be modified. Only DTDL properties can be updated.">>)

\* resolveCommand accepting a descriptor of any source
resolvedCommandOf_anySource(intent, targetEntities, propertyResult) ==
    IF ~propertyResult.success THEN propertyNotFound(intent)
    ELSE [code |-> "", message |-> <<>>,
          targetEntities |-> targetEntities,
          property |-> propertyResult.property,
          value |-> intent.value,
          scope |-> IF intent.scope # "" THEN intent.scope
                    ELSE IF Len(targetEntities) > 1 THEN "bulk" ELSE "single"]

\* resolveCommand steps 2 to 4, from the result of resolveProperty on the
\* first target entity
resolvedCommandOf(intent, targetEntities, propertyResult) ==
    IF ~propertyResult.success THEN propertyNotFound(intent)
    ELSE IF propertyResult.property.source # "dtdl" THEN propertyNotEditable(intent)
    ELSE [code |-> "", message |-> <<>>,
          targetEntities |-> targetEntities,
          property |-> propertyResult.property,
          value |-> intent.value,
          scope |-> IF intent.scope # "" THEN intent.scope
                    ELSE IF Len(targetEntities) > 1 THEN "bulk" ELSE "single"]

\* resolveCommand resolving the property phrase on the last target entity
resolveTargets_lastEntity(intent, ents, bulk) ==
    IF bulk.code # "" THEN entityNotFound(intent)
    ELSE IF Len(bulk.entities) = 0 THEN noEntitiesFound(intent)
    ELSE resolvedCommandOf(intent, bulk.entities,
                           resolveProperty(ents[bulk.entities[Len(bulk.entities)]],
                                           intent.property))

\* resolveCommand from the result of resolveBulk
resolveTargets(intent, ents, bulk) ==
    IF bulk.code # "" THEN entityNotFound(intent)
    ELSE IF Len(bulk.entities) = 0 THEN noEntitiesFound(intent)
    ELSE resolvedCommandOf(intent, bulk.entities,
                           resolveProperty(ents[bulk.entities[1]], intent.property))

\* SchemaResolver.resolveCommand(intent): the resolved command, or the code
\* and message of the DomainError thrown
resolveCommand(intent, ents, ord) ==
    resolveTargets(intent, ents,
                   resolveBulk(intent.targetEntity, ents, ord, intent.filter))

----------------------------------------------------------------------------
(* CommandService: executeCommand, applyUpdates, formatResponse *)

NoResponse == [returned |-> FALSE, success |-> FALSE, updates |-> <<>>,
               message |-> <<>>, errors |-> <<>>]

\* the response of the catch clause for a DomainError
errorResponse(message) ==
    [returned |-> TRUE, success |-> FALSE, updates |-> <<>>,
     message |-> message, errors |-> <<message>>]

\* u.error || "Unknown error"
errorOf(u) == IF u.error = <<>> THEN <<"Unknown error">> ELSE u.error

\* the response for the successful updates, all updates and all errors
responseOf(successful, updates, allErrors) ==
    [returned |-> TRUE,
     success |-> Len(successful) > 0,
     updates |-> updates,
     message |->
        (IF Len(successful) = 1
         THEN <<"Updated ", successful[1].entityId, ".", successful[1].property,
                ": ", successful[1].oldValue, " -> ", successful[1].newValue>>
         ELSE IF Len(successful) > 1
         THEN <<"Successfully updated ", Len(successful), " entities">>
         ELSE <<>>)
        \o (IF Len(allErrors) > 0
            THEN <<"\n", Len(allErrors),
                   IF Len(allErrors) = 1 THEN " error" ELSE " errors", ": ", allErrors>>
            ELSE <<>>),
     errors |-> allErrors]

\* the errors of the failed updates, then the validation errors
allErrorsOf(failed, errors) ==
    [i \in 1..Len(failed) |-> errorOf(failed[i])] \o errors

\* formatResponse(updates, errors); errors <<>> in the response is undefined
formatResponse(updates, errors) ==
    responseOf(SelectSeq(updates, LAMBDA u : u.success), updates,
               allErrorsOf(SelectSeq(updates, LAMBDA u : ~u.success), errors))

NoIntent == [targetEntity |-> "", property |-> "", value |-> Undef,
             filter |-> NoFilter, scope |-> ""]

\* One call of executeCommand.  pc is its position: "idle" before the intent
\* is parsed, "validating" at the await of the validations, "saving" at the
\* await of dtdlRepository.save for entity number k of valid, "done" once it
\* has returned a response.  validated, applied and saved are history: the
\* ids handed to validate, the ids whose in-memory update succeeded, and the
\* outcome of each save awaited.
IdleCommand ==
    [pc |-> "idle", intent |-> NoIntent, resolved |-> CommandFailed("", <<>>),
     valid |-> <<>>, errors |-> <<>>, k |-> 0, pending |-> NoResult,
     snapshot |-> <<>>, updates |-> <<>>, response |-> NoResponse,
     validated |-> <<>>, applied |-> <<>>, saved |-> <<>>]

\* executeCommand from the resolved command to the await of the
\* validations, or to the response of the catch clause
commandResolved(cmd, intent, resolvedCommand) ==
    IF resolvedCommand.code # ""
    THEN [cmd EXCEPT !.pc = "done", !.intent = intent,
                     !.resolved = resolvedCommand,
                     !.response = errorResponse(resolvedCommand.message)]
    ELSE [cmd EXCEPT !.pc = "validating", !.intent = intent,
                     !.resolved = resolvedCommand,
                     !.validated = resolvedCommand.targetEntities]

\* executeCommand from the parsed intent
startCommand(cmd, intent, ents, ord) ==
    commandResolved(cmd, intent, resolveCommand(intent, ents, ord))

\* the numbers 1..n in increasing order
indexes(n) == [i \in 1..n |-> i]

\* targetEntities.filter((_, index) => validationResults[index].valid),
\* idx being the numbers of the valid results
entitiesAt(targets, idx) == [j \in 1..Len(idx) |-> targets[idx[j]]]

\* `${targetEntities[index].id}: ${result.error}` for the results numbered idx
validationErrors(targets, validationResults, idx) ==
    [j \in 1..Len(idx) |->
        <<targets[idx[j]], ": ">> \o validationResults[idx[j]].error]

\* executeCommand step 4 keeping every target entity, valid or not
validationsDone_keepAll(cmd, targets, validationResults) ==
    [cmd EXCEPT
        !.valid = targets,
        !.errors = validationErrors(targets, validationResults,
                      SelectSeq(indexes(Len(targets)),
                                LAMBDA i : ~validationResults[i].valid))]

\* executeCommand step 4: validEntities and errors from the validation results
validationsDone(cmd, targets, validationResults) ==
    [cmd EXCEPT
        !.valid = entitiesAt(targets,
                      SelectSeq(indexes(Len(targets)),
                                LAMBDA i : validationResults[i].valid)),
        !.errors = validationErrors(targets, validationResults,
                      SelectSeq(indexes(Len(targets)),
                                LAMBDA i : ~validationResults[i].valid))]

\* executeCommand steps 3 and 4
filterValid(cmd, store, ents) ==
    validationsDone(cmd, cmd.resolved.targetEntities,
              [i \in 1..Len(cmd.resolved.targetEntities) |->
                  validate(store, ents[cmd.resolved.targetEntities[i]],
                           cmd.resolved.property.name, cmd.resolved.value)])

\* the result of an update whose save threw
persistenceFailed(result) ==
    [result EXCEPT !.success = FALSE,
                   !.error = <<"Database persistence failed: ", "error.message">>]

\* applyUpdates after a save that threw, the loop not going on
saveReturned_abort(cmd, ents, ok) ==
    [cmd |-> [cmd EXCEPT !.updates = Append(@, IF ok THEN cmd.pending
                                               ELSE persistenceFailed(cmd.pending)),
                         !.pending = NoResult,
                         !.snapshot = <<>>,
                         !.saved = Append(@, ok),
                         !.k = IF ok THEN @ ELSE Len(cmd.valid)],
     entities |-> ents]

\* applyUpdates putting the old value back after a save that threw
saveReturned_rollback(cmd, ents, ok) ==
    [cmd |-> [cmd EXCEPT !.updates = Append(@, IF ok THEN cmd.pending
                                               ELSE persistenceFailed(cmd.pending)),
                         !.pending = NoResult,
                         !.snapshot = <<>>,
                         !.saved = Append(@, ok)],
     entities |-> IF ok THEN ents
                  ELSE updateEntityProperty(ents, cmd.pending.entityId,
                                            cmd.pending.property,
                                            cmd.pending.oldValue).entities]

\* applyUpdates from the return of the awaited save (ok) or its throw (~ok)
\* to updates.push(result)
saveReturned(cmd, ents, ok) ==
    [cmd |-> [cmd EXCEPT !.updates = Append(@, IF ok THEN cmd.pending
                                               ELSE persistenceFailed(cmd.pending)),
                         !.pending = NoResult,
                         !.snapshot = <<>>,
                         !.saved = Append(@, ok)],
     entities |-> ents]

RECURSIVE applyUpdates(_, _)
RECURSIVE updateApplied(_, _, _)
\* the loop of applyUpdates from entity number k + 1 of valid up to the next
\* await of save (pc "saving", snapshot the content list handed to save) or
\* to its return (pc "applied")
applyUpdates(cmd, ents) ==
    IF cmd.k >= Len(cmd.valid)
    THEN [cmd |-> [cmd EXCEPT !.pc = "applied"], entities |-> ents]
    ELSE updateApplied([cmd EXCEPT !.k = @ + 1], cmd.valid[cmd.k + 1],
                       updateEntityProperty(ents, cmd.valid[cmd.k + 1],
                                            cmd.resolved.property.name,
                                            cmd.resolved.value))

\* the body of the loop for entityId from the return r of updateEntityProperty
updateApplied(cmd, entityId, r) ==
    IF ~r.result.success
    THEN applyUpdates([cmd EXCEPT !.updates = Append(@, r.result)], r.entities)
    ELSE IF ~hasEntity(r.entities, entityId)
    THEN applyUpdates(
             [cmd EXCEPT !.applied = Append(@, entityId),
                         !.updates = Append(@,
                             [r.result EXCEPT
                                 !.success = FALSE,
                                 !.error = <<"Entity not found after update">>])],
             r.entities)
    ELSE [cmd |-> [cmd EXCEPT !.pc = "saving",
                              !.pending = r.result,
                              !.snapshot = r.entities[entityId].contents,
                              !.applied = Append(@, entityId)],
          entities |-> r.entities]

\* executeCommand step 6: the response once applyUpdates has returned
respond(a) ==
    IF a.cmd.pc = "applied"
    THEN [a EXCEPT !.cmd.pc = "done",
                   !.cmd.response = formatResponse(a.cmd.updates, a.cmd.errors)]
    ELSE a

\* the writer of each <<id, property>> after command c went from before to after
writtenBy(c, before, after, w) ==
    [p \in DOMAIN w |->
        IF /\ p[2] = after.resolved.property.name
           /\ \E i \in (Len(before.applied) + 1)..Len(after.applied) :
                 after.applied[i] = p[1]
        THEN c ELSE w[p]]

----------------------------------------------------------------------------
(* Specification SpecCmd: two calls of executeCommand in flight *)

Cmds == {1, 2}

\* initializeConstraints: the default rows
DefaultConstraints ==
    (<<"HaulTruck", Focus>> :>
        ConstraintRow(NumV(0), NumV(10000 * Scale), FALSE, TRUE, NoAllowed))
    @@ (<<"HaulTruck", Category>> :> ConstraintRow(Undef, Undef, FALSE, TRUE, NoAllowed))
    @@ (<<"Loader", Focus>> :>
        ConstraintRow(NumV(0), NumV(10000 * Scale), FALSE, TRUE, NoAllowed))
    @@ (<<"Loader", Category>> :> ConstraintRow(Undef, Undef, FALSE, TRUE, NoAllowed))

CmdRows ==
    <<Row(TruckA, "Haul Truck CAT 777", <<FocusSet, OnPath, SpeedTelemetry>>),
      Row(TruckB, "Haul Truck CAT 777", <<FocusDefaultOnly, CategoryFixed>>),
      Row(LoaderA, "Loader CAT 994", <<CategoryFixed, SpeedTelemetry>>)>>

Intent(targetEntity, filter, property, value) ==
    [targetEntity |-> targetEntity, property |-> property, value |-> value,
     filter |-> filter, scope |-> ""]

Intents ==
    { Intent(TruckA, NoFilter, "focus snap distance", NumV(300 * Scale)),
      Intent(TruckA, NoFilter, "focus snap distance", NumV(500 * Scale)),
      Intent(TruckA, NoFilter, "focus snap distance", NumV(20000 * Scale)),
      Intent("all trucks", TypeFilter("HaulTruck"), "focus snap distance",
             NumV(300 * Scale)),
      Intent("all", NoFilter, "focus snap distance", NumV(500 * Scale)),
      Intent("all", TypeFilter("Mill"), "focus snap distance", NumV(300 * Scale)),
      Intent(TruckA, NoFilter, "speed", NumV(300 * Scale)),
      Intent(TruckA, NoFilter, "bogus phrase", NumV(300 * Scale)),
      Intent("truck 999", NoFilter, "focus snap distance", NumV(300 * Scale)) }

\* the store the model was loaded from: id -> content list
storedContents(rows) ==
    [id \in {rows[i].id : i \in 1..Len(rows)} |->
        rows[CHOOSE i \in 1..Len(rows) : rows[i].id = id].contents]

InitCmd ==
    /\ entities = loadModel(CmdRows)
    /\ order = rowIds(CmdRows)
    /\ calls = 0
    /\ res = NoResult
    /\ vin = NoInput
    /\ vout = NoValidation
    /\ cmds = [c \in Cmds |-> IdleCommand]
    /\ db = storedContents(CmdRows)
    /\ writer = [p \in {TruckA, TruckB, LoaderA} \X {Focus, Category} |-> 0]
    /\ rin = NoCall
    /\ rout = NoReturn
    /\ executors = NoExecutors
    /\ registered = NoExecutors

\* parseCommand returned intent: resolveCommand, then the validations start
StartCommand(c) ==
    /\ cmds[c].pc = "idle"
    /\ \E intent \in Intents :
          cmds' = [cmds EXCEPT ![c] = startCommand(@, intent, entities, order)]
    /\ UNCHANGED <<executors, registered, entities, order, calls, res, vin, vout, db, writer, rin, rout>>

\* Promise.all of the validations returned: filter, then applyUpdates up to
\* its first await of save or to the response.  validate reads only fields
\* of the entity that no operation assigns (type, the cache entries' type,
\* editable and constraints), so its results do not depend on when it runs.
ValidationsReturn(c) ==
    /\ cmds[c].pc = "validating"
    /\ \E a \in {respond(applyUpdates(filterValid(cmds[c], DefaultConstraints, entities),
                                      entities))} :
          /\ cmds' = [cmds EXCEPT ![c] = a.cmd]
          /\ entities' = a.entities
          /\ writer' = writtenBy(c, cmds[c], a.cmd, writer)
    /\ UNCHANGED <<executors, registered, order, calls, res, vin, vout, db, rin, rout>>

\* the awaited save returned (the store holds the content list it was
\* handed) or threw; applyUpdates goes on to its next await or to the response
SaveReturns(c) ==
    /\ cmds[c].pc = "saving"
    /\ \E ok \in BOOLEAN :
          \E a \in {respond(applyUpdates(saveReturned(cmds[c], entities, ok).cmd,
                                         saveReturned(cmds[c], entities, ok).entities))} :
              /\ cmds' = [cmds EXCEPT ![c] = a.cmd]
              /\ entities' = a.entities
              /\ writer' = writtenBy(c, cmds[c], a.cmd, writer)
              /\ db' = IF ok
                       THEN [db EXCEPT ![cmds[c].pending.entityId] = cmds[c].snapshot]
                       ELSE db
    /\ UNCHANGED <<executors, registered, order, calls, res, vin, vout, rin, rout>>

NextCmd == \E c \in Cmds : StartCommand(c) \/ ValidationsReturn(c) \/ SaveReturns(c)

SpecCmd == InitCmd /\ [][NextCmd]_vars

----------------------------------------------------------------------------
(* SpecResolve: EntityResolver.resolve and resolveBulk on the models and   *)
(* references drawn by InitResolve.  A reference is resolved and then a    *)
(* reference of the same normalized form is resolved against the same      *)
(* model, or the reference is resolved in bulk under a filter.             *)

MaxEntities == 3

Truck56 == "Truck_56"
truck56 == "truck_56"

\* rows of the store: two trucks whose ids differ in the last digit, a
\* loader, and two trucks whose ids differ in case only
ResolverRows ==
    { Row(TruckA, "Haul Truck CAT 777", <<FocusSet, OnPath, SpeedTelemetry>>),
      Row(TruckB, "Haul Truck CAT 777", <<FocusDefaultOnly, CategoryFixed>>),
      Row(LoaderA, "Loader CAT 994", <<OnPath, SpeedTelemetry>>),
      Row(Truck56, "Haul Truck", <<FocusBare>>),
      Row(truck56, "Haul Truck", <<OnPath>>) }

\* the lists of two to MaxEntities rows of distinct ids, in every order
ResolverModels ==
    { rows \in UNION {[1..n -> ResolverRows] : n \in 2..MaxEntities} :
          \A i, j \in DOMAIN rows : i # j => rows[i].id # rows[j].id }

References ==
    { TruckA, "haul_truck_cat_777_2", "HAUL TRUCK CAT 777 2", "truck 777 2",
      "truck777", "loader994", "cat 777 5", "truck 999",
      Truck56, truck56, "TRUCK 56", "truck 56" }

BulkReferences == {"all", "ALL", "all trucks", "truck 777 2", "truck 999"}

RelationshipFilter(type, name, targetId) ==
    [type |-> type, relationship |-> [has |-> TRUE, name |-> name, targetId |-> targetId]]

Filters ==
    { NoFilter, TypeFilter("HaulTruck"), TypeFilter("Mill"),
      RelationshipFilter("", "assignedPath", "path_1"),
      RelationshipFilter("HaulTruck", "assignedPath", "path_1"),
      RelationshipFilter("", "assignedPath", "path_2") }

\* the two references name the same normalized form
sameNormalized(reference, again) ==
    normalizeReference(Chars(reference)) = normalizeReference(Chars(again))

ResolveCalls ==
    { [has |-> TRUE, call |-> "resolve", reference |-> pair[1], again |-> pair[2],
       filter |-> NoFilter] :
          pair \in {p \in References \X References : sameNormalized(p[1], p[2])} }
    \cup
    { [has |-> TRUE, call |-> "resolveBulk", reference |-> reference,
       again |-> reference, filter |-> filter] :
          reference \in BulkReferences, filter \in Filters }

InitResolve ==
    /\ \E rows \in ResolverModels :
          /\ entities = loadModel(rows)
          /\ order = rowIds(rows)
    /\ calls = 0
    /\ res = NoResult
    /\ vin = NoInput
    /\ vout = NoValidation
    /\ cmds = NoCommands
    /\ db = NoStore
    /\ writer = NoWriter
    /\ rin \in ResolveCalls
    /\ rout = NoReturn
    /\ executors = NoExecutors
    /\ registered = NoExecutors

\* entityResolver.resolve(reference, model)
Resolve ==
    /\ rin.call = "resolve"
    /\ "resolve" \notin DOMAIN rout
    /\ rout' = rout @@ ("resolve" :> resolve(rin.reference, entities, order))
    /\ UNCHANGED <<executors, registered, entities, order, calls, res, vin, vout, cmds, db, writer, rin>>

\* a later entityResolver.resolve(again, model) on the same model
ResolveAgain ==
    /\ rin.call = "resolve"
    /\ "resolve" \in DOMAIN rout
    /\ "again" \notin DOMAIN rout
    /\ rout' = rout @@ ("again" :> resolve(rin.again, entities, order))
    /\ UNCHANGED <<executors, registered, entities, order, calls, res, vin, vout, cmds, db, writer, rin>>

\* entityResolver.resolveBulk(reference, model, filter)
ResolveBulk ==
    /\ rin.call = "resolveBulk"
    /\ "resolveBulk" \notin DOMAIN rout
    /\ rout' = rout @@ ("resolveBulk" :>
                            resolveBulk(rin.reference, entities, order, rin.filter))
    /\ UNCHANGED <<executors, registered, entities, order, calls, res, vin, vout, cmds, db, writer, rin>>

NextResolve == Resolve \/ ResolveAgain \/ ResolveBulk

SpecResolve == InitResolve /\ [][NextResolve]_vars

----------------------------------------------------------------------------
(* SpecProperty: PropertyResolver.resolveProperty on the content lists and *)
(* phrases drawn by InitProperty                                           *)

MaxContents == 3

\* content items an entity may declare: four properties, one of them named
\* by a word another name contains, and a telemetry item
ResolverItems ==
    { FocusSet,
      PropertyItem("maxSpeedKph", "double", NumV(60 * Scale), Undef, Undef),
      PropertyItem("speed", "double", NumV(40 * Scale), Undef, Undef),
      PropertyItem("payloadTonnes", "double", Undef, NumV(300 * Scale), Undef),
      SpeedTelemetry }

\* the content lists of one to MaxContents items of distinct names, in every order
ResolverContents ==
    { contents \in UNION {[1..n -> ResolverItems] : n \in 1..MaxContents} :
          \A i, j \in DOMAIN contents : i # j => contents[i].name # contents[j].name }

Phrases ==
    { Focus, "focus snap distance", "snap", "speed", "max speed", "speed limit",
      "status", "engine temp", "tire pressure", "payload", "bogus phrase" }

InitProperty ==
    /\ entities = newDTDLModel(<<>>)
    /\ order = <<>>
    /\ calls = 0
    /\ res = NoResult
    /\ vin = NoInput
    /\ vout = NoValidation
    /\ cmds = NoCommands
    /\ db = NoStore
    /\ writer = NoWriter
    /\ \E contents \in ResolverContents, phrase \in Phrases :
          rin = [has |-> TRUE, call |-> "resolveProperty",
                 entity |-> mapToDomain(Row(TruckA, "Haul Truck CAT 777", contents)),
                 naturalLanguageName |-> phrase]
    /\ rout = NoReturn
    /\ executors = NoExecutors
    /\ registered = NoExecutors

\* propertyResolver.resolveProperty(entity, naturalLanguageName)
ResolveProperty ==
    /\ rin.call = "resolveProperty"
    /\ "resolveProperty" \notin DOMAIN rout
    /\ rout' = rout @@ ("resolveProperty" :>
                            resolveProperty(rin.entity, rin.naturalLanguageName))
    /\ UNCHANGED <<executors, registered, entities, order, calls, res, vin, vout, cmds, db, writer, rin>>

NextProperty == ResolveProperty

SpecProperty == InitProperty /\ [][NextProperty]_vars

----------------------------------------------------------------------------
(* QueryExecutorRegistry.  An executor is its name, the intents its        *)
(* canHandle accepts and the number of the register call that passed it.   *)

QueryIntents == {"get_property", "aggregate", "count", "current", "relationship"}

Executor(name, handles, instance) ==
    [name |-> name, handles |-> handles, instance |-> instance]

\* executor.canHandle(intent)
canHandle(executor, intent) == intent \in executor.handles

\* register keeping a re-registered executor at the place of the one it replaces
register_inPlace(list, executor) ==
    IF \E i \in 1..Len(list) : list[i].name = executor.name
    THEN [i \in 1..Len(list) |->
             IF list[i].name = executor.name THEN executor ELSE list[i]]
    ELSE Append(list, executor)

\* QueryExecutorRegistry.register(executor)
register(list, executor) ==
    IF \E i \in 1..Len(list) : list[i].name = executor.name
    THEN LET Other(e) == e.name # executor.name
         IN  Append(SelectSeq(list, Other), executor)
    ELSE Append(list, executor)

NoExecutorFound == [thrown |-> TRUE, executor |-> Executor("", {}, 0)]

\* QueryExecutorRegistry.getExecutor(resolvedQuery): the first executor that
\* can handle the intent, or the Error thrown
getExecutor(list, intent) ==
    IF \A i \in 1..Len(list) : ~canHandle(list[i], intent)
    THEN NoExecutorFound
    ELSE [thrown |-> FALSE,
          executor |-> list[least({i \in 1..Len(list) : canHandle(list[i], intent)})]]

\* the executors the constructor registers
DefaultExecutors ==
    <<Executor("PropertyExecutor", {"get_property", "current"}, 1),
      Executor("AggregateExecutor", {"aggregate"}, 2),
      Executor("CountExecutor", {"count"}, 3)>>

RECURSIVE registerAll(_, _)
\* the registry after register was called with each executor of calls in turn
registerAll(list, callList) ==
    IF callList = <<>> THEN list
    ELSE registerAll(register(list, Head(callList)), Tail(callList))

----------------------------------------------------------------------------
(* SpecRegistry: the registry after its constructor, further register      *)
(* calls and then a getExecutor call                                       *)

MaxRegistered == 5

\* executors a caller may register: a new name, new instances under the
\* names of default executors, and one that accepts every intent
ExecutorKinds ==
    { [name |-> "RelationshipExecutor", handles |-> {"relationship"}],
      [name |-> "PropertyExecutor", handles |-> {"get_property"}],
      [name |-> "CountExecutor", handles |-> {"count", "aggregate"}],
      [name |-> "AggregateExecutor", handles |-> {"aggregate"}],
      [name |-> "FallbackExecutor", handles |-> QueryIntents] }

InitRegistry ==
    /\ entities = newDTDLModel(<<>>)
    /\ order = <<>>
    /\ calls = 0
    /\ res = NoResult
    /\ vin = NoInput
    /\ vout = NoValidation
    /\ cmds = NoCommands
    /\ db = NoStore
    /\ writer = NoWriter
    /\ rin = NoCall
    /\ rout = NoReturn
    /\ executors = registerAll(NoExecutors, DefaultExecutors)
    /\ registered = DefaultExecutors

\* registry.register(executor), before the query
Register ==
    /\ Len(registered) < MaxRegistered
    /\ rin = NoCall
    /\ \E kind \in ExecutorKinds :
          /\ executors' = register(executors,
                                   Executor(kind.name, kind.handles, Len(registered) + 1))
          /\ registered' = Append(registered,
                                  Executor(kind.name, kind.handles, Len(registered) + 1))
    /\ UNCHANGED <<entities, order, calls, res, vin, vout, cmds, db, writer, rin, rout>>

\* registry.getExecutor(resolvedQuery)
GetExecutor ==
    /\ rin = NoCall
    /\ \E intent \in QueryIntents :
          /\ rin' = [has |-> TRUE, call |-> "getExecutor", intent |-> intent]
          /\ rout' = rout @@ ("getExecutor" :> getExecutor(executors, intent))
    /\ UNCHANGED <<executors, registered, entities, order, calls, res, vin, vout, cmds, db, writer>>

NextRegistry == Register \/ GetExecutor

SpecRegistry == InitRegistry /\ [][NextRegistry]_vars

----------------------------------------------------------------------------
(* Query executors.  A telemetry record is its timestamp and the fields    *)
(* the executors read; a field a record lacks is Undef.  A QueryResult is  *)
(* its value, its units and the recordCount of its metadata (has is FALSE  *)
(* when the result carries no metadata).                                   *)

\* a ?? b
Nullish(a, b) == IF a = Undef \/ a = Null THEN b ELSE a

TelemetryRecord(timestamp, haulPathId, speedMph, status) ==
    [timestamp |-> timestamp, haulPathId |-> haulPathId, speedMph |-> speedMph,
     status |-> status]

\* (record as any)[fieldName]
fieldOf(record, fieldName) ==
    IF fieldName \in DOMAIN record THEN record[fieldName] ELSE Undef

NoMetadata == [has |-> FALSE, recordCount |-> 0]
Metadata(recordCount) == [has |-> TRUE, recordCount |-> recordCount]

QueryResult(value, units, metadata) ==
    [thrown |-> FALSE, error |-> "", value |-> value, units |-> units,
     metadata |-> metadata]

ExecutorError(error) ==
    [thrown |-> TRUE, error |-> error, value |-> Undef, units |-> "",
     metadata |-> NoMetadata]

NoTimeWindow == [has |-> FALSE, minutes |-> 0]
TimeWindow(minutes) == [has |-> TRUE, minutes |-> minutes]

\* a ResolvedQuery: property is meaningful when hasProperty, operation,
\* sourcePath and destinationPath are "" when absent
ResolvedQuery(intent, hasProperty, property, operation, timeWindow, sourcePath, destinationPath) ==
    [intent |-> intent, hasProperty |-> hasProperty, property |-> property,
     operation |-> operation, timeWindow |-> timeWindow,
     filters |-> [sourcePath |-> sourcePath, destinationPath |-> destinationPath]]

\* value * 1.60934 on fixed-point numbers, rounded towards zero; the product
\* is taken on the thousands and on the rest apart, within the integer width
mphToKph(value) ==
    NumV(((value.n \div 1000) * 1609340 + ((value.n % 1000) * 160934) \div 100) \div 1000)

\* PropertyExecutor.getUnitsForProperty for a property without units, from
\* its lowercased name
defaultUnits(propertyName, source) ==
    IF includes(propertyName, <<"t", "e", "m", "p">>) THEN "degF"
    ELSE IF includes(propertyName, <<"l", "e", "v", "e", "l">>)
            \/ includes(propertyName, <<"f", "u", "e", "l">>) THEN "%"
    ELSE IF includes(propertyName, <<"h", "e", "a", "d", "i", "n", "g">>) THEN "degrees"
    ELSE IF includes(propertyName, <<"p", "a", "y", "l", "o", "a", "d">>) THEN "tonnes"
    ELSE IF includes(propertyName, <<"s", "p", "e", "e", "d">>) /\ source = "telemetry"
    THEN "km/h"
    ELSE ""

\* PropertyExecutor.getUnitsForProperty(property)
getUnitsForProperty(property) ==
    IF property.units # "" THEN property.units
    ELSE defaultUnits(toLowerCase(Chars(property.name)), property.source)

RECURSIVE insertByTimestamp(_, _)
\* record put into a list sorted by descending timestamp, after the records
\* of the same timestamp
insertByTimestamp(sorted, record) ==
    IF sorted = <<>> THEN <<record>>
    ELSE IF Head(sorted).timestamp >= record.timestamp
    THEN <<Head(sorted)>> \o insertByTimestamp(Tail(sorted), record)
    ELSE <<record>> \o sorted

RECURSIVE sortByTimestampDesc(_)
\* [...telemetry].sort((a, b) => b.timestamp.getTime() - a.timestamp.getTime()),
\* a stable sort
sortByTimestampDesc(telemetry) ==
    IF telemetry = <<>> THEN <<>>
    ELSE insertByTimestamp(sortByTimestampDesc(SubSeq(telemetry, 1, Len(telemetry) - 1)),
                           telemetry[Len(telemetry)])

\* the result for the value of the field in the most recent record
latestValueResult(property, value, recordCount) ==
    IF property.name = "speedMph" /\ TypeOf(value) = "number"
    THEN QueryResult(mphToKph(value), "km/h", Metadata(recordCount))
    ELSE QueryResult(Nullish(value, StrV("N/A")), getUnitsForProperty(property),
                     Metadata(recordCount))

\* PropertyExecutor.execute reading the first record of the window
propertyExecute_firstRecord(query, telemetry) ==
    IF ~query.hasProperty
    THEN ExecutorError("Property executor requires a property to be resolved")
    ELSE IF query.property.source = "dtdl"
    THEN QueryResult(Nullish(query.property.value,
                             Nullish(query.property.initialValue, StrV("N/A"))),
                     getUnitsForProperty(query.property), NoMetadata)
    ELSE IF query.property.source = "telemetry"
    THEN IF Len(telemetry) = 0
         THEN QueryResult(StrV("N/A"), getUnitsForProperty(query.property), Metadata(0))
         ELSE latestValueResult(query.property,
                                fieldOf(telemetry[1], query.property.name),
                                Len(telemetry))
    ELSE ExecutorError("Unknown property source")

\* PropertyExecutor.execute(resolvedQuery, telemetry)
propertyExecute(query, telemetry) ==
    IF ~query.hasProperty
    THEN ExecutorError("Property executor requires a property to be resolved")
    ELSE IF query.property.source = "dtdl"
    THEN QueryResult(Nullish(query.property.value,
                             Nullish(query.property.initialValue, StrV("N/A"))),
                     getUnitsForProperty(query.property), NoMetadata)
    ELSE IF query.property.source = "telemetry"
    THEN IF Len(telemetry) = 0
         THEN QueryResult(StrV("N/A"), getUnitsForProperty(query.property), Metadata(0))
         ELSE latestValueResult(query.property,
                                fieldOf(sortByTimestampDesc(telemetry)[1],
                                        query.property.name),
                                Len(telemetry))
    ELSE ExecutorError("Unknown property source")

\* AggregateExecutor.getUnitsForProperty for a property without units
aggregateDefaultUnits(propertyName) ==
    IF includes(propertyName, <<"s", "p", "e", "e", "d">>) THEN "km/h"
    ELSE IF includes(propertyName, <<"t", "e", "m", "p">>) THEN "degF"
    ELSE IF includes(propertyName, <<"l", "e", "v", "e", "l">>)
            \/ includes(propertyName, <<"f", "u", "e", "l">>) THEN "%"
    ELSE ""

\* AggregateExecutor.getUnitsForProperty(resolvedQuery.property)
aggregateUnits(query) ==
    IF ~query.hasProperty THEN ""
    ELSE IF query.property.units # "" THEN query.property.units
    ELSE aggregateDefaultUnits(toLowerCase(Chars(query.property.name)))

\* AggregateExecutor.getAggregateField(resolvedQuery)
getAggregateField(query) ==
    IF query.hasProperty /\ query.property.source = "telemetry"
    THEN query.property.name
    ELSE "speedMph"

RECURSIVE extractValues(_, _)
\* AggregateExecutor.extractValues(telemetry, fieldName): the fixed-point
\* numbers of the field, speedMph converted to km/h
extractValues(telemetry, fieldName) ==
    IF telemetry = <<>> THEN <<>>
    ELSE IF TypeOf(fieldOf(Head(telemetry), fieldName)) # "number"
    THEN extractValues(Tail(telemetry), fieldName)
    ELSE <<IF fieldName = "speedMph"
           THEN mphToKph(fieldOf(Head(telemetry), fieldName)).n
           ELSE fieldOf(Head(telemetry), fieldName).n>>
         \o extractValues(Tail(telemetry), fieldName)

RECURSIVE sumOf(_)
sumOf(values) == IF values = <<>> THEN 0 ELSE Head(values) + sumOf(Tail(values))

\* the aggregation of a non-empty list of values, the average rounded
\* towards zero
aggregateOf(operation, values) ==
    CASE operation = "average" -> sumOf(values) \div Len(values)
      [] operation = "max" ->
           CHOOSE v \in {values[i] : i \in 1..Len(values)} :
               \A i \in 1..Len(values) : values[i] <= v
      [] operation = "min" -> least({values[i] : i \in 1..Len(values)})
      [] OTHER -> sumOf(values)

\* TelemetryService.calculateRouteUtilization(records, timeWindowMinutes)
calculateRouteUtilization(records, timeWindowMinutes) ==
    IF Len(records) = 0 THEN NumV(0)
    ELSE NumV((Len(records) * 100 * Scale) \div timeWindowMinutes)

\* the result of the aggregation of the values extracted
aggregateResult(query, values, recordCount) ==
    IF Len(values) = 0
    THEN QueryResult(NumV(0), aggregateUnits(query), Metadata(recordCount))
    ELSE IF query.operation \notin {"average", "max", "min", "sum"}
    THEN ExecutorError("Unknown aggregate operation")
    ELSE QueryResult(NumV(aggregateOf(query.operation, values)), aggregateUnits(query),
                     Metadata(recordCount))

\* AggregateExecutor.execute returning no metadata for an empty window
aggregateExecute_noMetadata(query, telemetry) ==
    IF query.operation = ""
    THEN ExecutorError("Aggregate executor requires an operation (average, max, min, sum)")
    ELSE IF Len(telemetry) = 0
    THEN QueryResult(NumV(0), aggregateUnits(query), NoMetadata)
    ELSE IF /\ query.operation = "average" /\ ~query.hasProperty
            /\ query.filters.sourcePath # "" /\ query.timeWindow.has
    THEN QueryResult(calculateRouteUtilization(telemetry, query.timeWindow.minutes),
                     "%", Metadata(Len(telemetry)))
    ELSE aggregateResult(query, extractValues(telemetry, getAggregateField(query)),
                         Len(telemetry))

\* AggregateExecutor.execute(resolvedQuery, telemetry), the executor having
\* been given the telemetry service
aggregateExecute(query, telemetry) ==
    IF query.operation = ""
    THEN ExecutorError("Aggregate executor requires an operation (average, max, min, sum)")
    ELSE IF Len(telemetry) = 0
    THEN QueryResult(NumV(0), aggregateUnits(query), Metadata(0))
    ELSE IF /\ query.operation = "average" /\ ~query.hasProperty
            /\ query.filters.sourcePath # "" /\ query.timeWindow.has
    THEN QueryResult(calculateRouteUtilization(telemetry, query.timeWindow.minutes),
                     "%", Metadata(Len(telemetry)))
    ELSE aggregateResult(query, extractValues(telemetry, getAggregateField(query)),
                         Len(telemetry))

RECURSIVE tripsBetween_keepsFlag(_, _, _, _)
\* the loop of countTripsBetweenPaths leaving wasOnSource set after a trip
tripsBetween_keepsFlag(telemetry, sourcePath, destinationPath, wasOnSource) ==
    IF telemetry = <<>> THEN 0
    ELSE IF Head(telemetry).haulPathId = StrV(sourcePath)
    THEN tripsBetween_keepsFlag(Tail(telemetry), sourcePath, destinationPath, TRUE)
    ELSE IF Head(telemetry).haulPathId = StrV(destinationPath) /\ wasOnSource
    THEN 1 + tripsBetween_keepsFlag(Tail(telemetry), sourcePath, destinationPath, TRUE)
    ELSE tripsBetween_keepsFlag(Tail(telemetry), sourcePath, destinationPath, wasOnSource)

RECURSIVE tripsBetween(_, _, _, _)
\* the loop of countTripsBetweenPaths over the records left, wasOnSource
\* being the flag on entry: the trips it adds to tripCount
tripsBetween(telemetry, sourcePath, destinationPath, wasOnSource) ==
    IF telemetry = <<>> THEN 0
    ELSE IF Head(telemetry).haulPathId = StrV(sourcePath)
    THEN tripsBetween(Tail(telemetry), sourcePath, destinationPath, TRUE)
    ELSE IF Head(telemetry).haulPathId = StrV(destinationPath) /\ wasOnSource
    THEN 1 + tripsBetween(Tail(telemetry), sourcePath, destinationPath, FALSE)
    ELSE tripsBetween(Tail(telemetry), sourcePath, destinationPath, wasOnSource)

\* countTripsBetweenPaths entering its loop with wasOnSource set
countTripsBetweenPaths_flagSet(telemetry, sourcePath, destinationPath) ==
    tripsBetween(telemetry, sourcePath, destinationPath, TRUE)

\* CountExecutor.countTripsBetweenPaths(telemetry, sourcePath, destinationPath)
countTripsBetweenPaths(telemetry, sourcePath, destinationPath) ==
    tripsBetween(telemetry, sourcePath, destinationPath, FALSE)

\* TelemetryService.countTrips(records, sourceRouteId, destinationRouteId)
countTrips(records, sourceRouteId, destinationRouteId) ==
    IF Len(records) = 0 THEN 0
    ELSE tripsBetween(records, sourceRouteId, destinationRouteId, FALSE)

RECURSIVE entriesInto_everyRecord(_, _, _)
\* the loop of countTripsOnPath counting every record on the path
entriesInto_everyRecord(telemetry, pathId, wasOnPath) ==
    IF telemetry = <<>> THEN 0
    ELSE (IF Head(telemetry).haulPathId = StrV(pathId) THEN 1 ELSE 0)
         + entriesInto_everyRecord(Tail(telemetry), pathId,
                                   Head(telemetry).haulPathId = StrV(pathId))

RECURSIVE entriesInto(_, _, _)
\* the loop of countTripsOnPath over the records left, wasOnPath being the
\* flag on entry
entriesInto(telemetry, pathId, wasOnPath) ==
    IF telemetry = <<>> THEN 0
    ELSE (IF Head(telemetry).haulPathId = StrV(pathId) /\ ~wasOnPath THEN 1 ELSE 0)
         + entriesInto(Tail(telemetry), pathId, Head(telemetry).haulPathId = StrV(pathId))

\* CountExecutor.countTripsOnPath(telemetry, pathId)
countTripsOnPath(telemetry, pathId) == entriesInto(telemetry, pathId, FALSE)

\* currentPathId is truthy: a non-empty string
truthyPath(haulPathId) == TypeOf(haulPathId) = "string" /\ haulPathId.s # ""

RECURSIVE pathChanges(_, _)
\* the loop of countAllPathEntries over the records left, lastPathId being
\* the path id of the record before
pathChanges(telemetry, lastPathId) ==
    IF telemetry = <<>> THEN 0
    ELSE (IF truthyPath(Head(telemetry).haulPathId)
             /\ Head(telemetry).haulPathId # lastPathId THEN 1 ELSE 0)
         + pathChanges(Tail(telemetry), Head(telemetry).haulPathId)

\* CountExecutor.countAllPathEntries(telemetry)
countAllPathEntries(telemetry) == pathChanges(telemetry, Undef)

\* CountExecutor.execute(resolvedQuery, telemetry)
countExecute(query, telemetry) ==
    IF Len(telemetry) = 0 THEN QueryResult(NumV(0), "trips", Metadata(0))
    ELSE QueryResult(
             NumV(Scale *
                  (IF /\ query.filters.sourcePath # ""
                      /\ query.filters.destinationPath # ""
                      /\ query.filters.sourcePath # query.filters.destinationPath
                   THEN countTripsBetweenPaths(telemetry, query.filters.sourcePath,
                                               query.filters.destinationPath)
                   ELSE IF query.filters.sourcePath # ""
                   THEN countTripsOnPath(telemetry, query.filters.sourcePath)
                   ELSE countAllPathEntries(telemetry))),
             "trips", Metadata(Len(telemetry)))

----------------------------------------------------------------------------
(* SpecExec: PropertyExecutor.execute and AggregateExecutor.execute on the *)
(* resolved queries and telemetry windows drawn by InitExec                *)

MaxReadings == 3

SpeedProperty == telemetryPropertyInfo("speedMph", telemetryField("speedMph"))
StatusProperty == telemetryPropertyInfo("status", telemetryField("status"))
FocusProperty == createDTDLPropertyInfo(FocusSet)

\* resolved queries as resolveQuery builds them for the two executors
ExecQueries ==
    { ResolvedQuery("get_property", TRUE, SpeedProperty, "", TimeWindow(60), "", ""),
      ResolvedQuery("get_property", TRUE, StatusProperty, "", TimeWindow(60), "", ""),
      ResolvedQuery("get_property", TRUE, FocusProperty, "", TimeWindow(60), "", ""),
      ResolvedQuery("get_property", FALSE, NotResolved.property, "", TimeWindow(60), "", ""),
      ResolvedQuery("aggregate", FALSE, NotResolved.property, "average", TimeWindow(60), "", ""),
      ResolvedQuery("aggregate", FALSE, NotResolved.property, "max", TimeWindow(60), "", ""),
      ResolvedQuery("aggregate", TRUE, SpeedProperty, "min", TimeWindow(60), "", ""),
      ResolvedQuery("aggregate", TRUE, StatusProperty, "max", TimeWindow(60), "", ""),
      ResolvedQuery("aggregate", FALSE, NotResolved.property, "average", TimeWindow(60),
                    "path_1", "") }

\* records of one truck: a speed of 10 or 25 mph at one of three instants,
\* and a record of the last instant that carries neither speed nor status
Readings ==
    { TelemetryRecord(t, StrV("path_1"), NumV(s * Scale), StrV("hauling")) :
          t \in 1..3, s \in {10, 25} }
    \cup { TelemetryRecord(3, StrV("path_1"), Undef, Undef) }

\* the windows of up to MaxReadings records, in every order
Windows == UNION {[1..n -> Readings] : n \in 0..MaxReadings}

InitExec ==
    /\ entities = newDTDLModel(<<>>)
    /\ order = <<>>
    /\ calls = 0
    /\ res = NoResult
    /\ vin = NoInput
    /\ vout = NoValidation
    /\ cmds = NoCommands
    /\ db = NoStore
    /\ writer = NoWriter
    /\ \E query \in ExecQueries, telemetry \in Windows :
          rin = [has |-> TRUE, call |-> "execute", query |-> query,
                 telemetry |-> telemetry]
    /\ rout = NoReturn
    /\ executors = registerAll(NoExecutors, DefaultExecutors)
    /\ registered = DefaultExecutors

\* the executor the registry gives for the query is the PropertyExecutor:
\* executor.execute(resolvedQuery, telemetry)
PropertyExecute ==
    /\ "execute" \notin DOMAIN rout
    /\ getExecutor(executors, rin.query.intent).executor.name = "PropertyExecutor"
    /\ rout' = rout @@ ("execute" :> propertyExecute(rin.query, rin.telemetry))
    /\ UNCHANGED <<executors, registered, entities, order, calls, res, vin, vout, cmds, db, writer, rin>>

\* the executor the registry gives for the query is the AggregateExecutor
AggregateExecute ==
    /\ "execute" \notin DOMAIN rout
    /\ getExecutor(executors, rin.query.intent).executor.name = "AggregateExecutor"
    /\ rout' = rout @@ ("execute" :> aggregateExecute(rin.query, rin.telemetry))
    /\ UNCHANGED <<executors, registered, entities, order, calls, res, vin, vout, cmds, db, writer, rin>>

NextExec == PropertyExecute \/ AggregateExecute

SpecExec == InitExec /\ [][NextExec]_vars

----------------------------------------------------------------------------
(* SpecCount: CountExecutor.execute on the path filters and the sequences  *)
(* of records drawn by InitCount                                           *)

MaxWalk == 7

Paths == {"A", "B", "C"}

\* the source and destination filters of a count query
PathFilters == {<<"A", "B">>, <<"B", "A">>, <<"A", "">>, <<"A", "A">>, <<"", "">>}

MaxGapWalk == 4

\* a record on the path named, or a record without haulPathId when the name
\* is ""
WalkRecord(timestamp, path) ==
    TelemetryRecord(timestamp, IF path = "" THEN Undef ELSE StrV(path),
                    NumV(10 * Scale), StrV("hauling"))

\* the record sequences of up to MaxWalk records, one per instant, each on
\* one of the paths, and those of up to MaxGapWalk records some of which
\* carry no haulPathId
Walks ==
    { [i \in DOMAIN walk |-> WalkRecord(i, walk[i])] :
          walk \in UNION {[1..n -> Paths] : n \in 0..MaxWalk}
                   \cup UNION {[1..n -> Paths \cup {""}] : n \in 0..MaxGapWalk} }

InitCount ==
    /\ entities = newDTDLModel(<<>>)
    /\ order = <<>>
    /\ calls = 0
    /\ res = NoResult
    /\ vin = NoInput
    /\ vout = NoValidation
    /\ cmds = NoCommands
    /\ db = NoStore
    /\ writer = NoWriter
    /\ \E filter \in PathFilters, telemetry \in Walks :
          rin = [has |-> TRUE, call |-> "execute",
                 query |-> ResolvedQuery("count", FALSE, NotResolved.property, "",
                                         TimeWindow(60), filter[1], filter[2]),
                 telemetry |-> telemetry]
    /\ rout = NoReturn
    /\ executors = registerAll(NoExecutors, DefaultExecutors)
    /\ registered = DefaultExecutors

\* the executor the registry gives for the query is the CountExecutor
CountExecute ==
    /\ "execute" \notin DOMAIN rout
    /\ getExecutor(executors, rin.query.intent).executor.name = "CountExecutor"
    /\ rout' = rout @@ ("execute" :> countExecute(rin.query, rin.telemetry))
    /\ UNCHANGED <<executors, registered, entities, order, calls, res, vin, vout, cmds, db, writer, rin>>

NextCount == CountExecute

SpecCount == InitCount /\ [][NextCount]_vars

----------------------------------------------------------------------------
(* SpecWindow: the telemetry QueryService.executeQuery fetches for the      *)
(* executor.  Instants are minutes; a stored record is its truck, its path  *)
(* and its timestamp; NoDate stands for a startTime or endTime not given.   *)

MaxStored == 4

NoDate == -1

\* subMinutes(date, minutes)
subMinutes(date, minutes) == date - minutes

\* the intent's timeWindow
IntentWindow(minutes, startTime, endTime) ==
    [minutes |-> minutes, startTime |-> startTime, endTime |-> endTime]

\* the effective time window of executeQuery: at least 30 minutes for the
\* current_speed and property question types
effectiveTimeWindow(questionType, timeWindow) ==
    IF questionType \in {"current_speed", "property"}
    THEN [timeWindow EXCEPT !.minutes = IF @ >= 30 THEN @ ELSE 30]
    ELSE timeWindow

\* QueryService.calculateTimeWindow(timeWindow), new Date() being now
calculateTimeWindow(timeWindow, now) ==
    [startTime |-> IF timeWindow.startTime # NoDate THEN timeWindow.startTime
                   ELSE subMinutes(IF timeWindow.endTime # NoDate
                                   THEN timeWindow.endTime ELSE now,
                                   timeWindow.minutes),
     endTime |-> IF timeWindow.endTime # NoDate THEN timeWindow.endTime ELSE now,
     minutes |-> timeWindow.minutes]

RECURSIVE ascendingOrders(_)
\* the orders in which findMany with orderBy timestamp asc may return the
\* records: ascending by timestamp, records of one timestamp in any order
ascendingOrders(records) ==
    IF records = {} THEN {<<>>}
    ELSE UNION { { <<first>> \o rest : rest \in ascendingOrders(records \ {first}) } :
                 first \in {r \in records :
                               \A other \in records : r.timestamp <= other.timestamp} }

\* PrismaTelemetryRepository.findByTruckAndTimeWindow: the orders it may return
findByTruckAndTimeWindow(store, truckId, startTime, endTime) ==
    ascendingOrders({r \in store : /\ r.truckId = truckId
                                   /\ r.timestamp >= startTime
                                   /\ r.timestamp <= endTime})

\* PrismaTelemetryRepository.findByRouteAndTimeWindow: the orders it may return
findByRouteAndTimeWindow(store, routeId, startTime, endTime) ==
    ascendingOrders({r \in store : /\ r.haulPathId = routeId
                                   /\ r.timestamp >= startTime
                                   /\ r.timestamp <= endTime})

\* TelemetryService.getTelemetry(truckId, windowMinutes), new Date() being now
getTelemetry(store, truckId, windowMinutes, now) ==
    findByTruckAndTimeWindow(store, truckId, subMinutes(now, windowMinutes), now)

\* TelemetryService.getTelemetryByPath(pathId, windowMinutes)
getTelemetryByPath(store, pathId, windowMinutes, now) ==
    findByRouteAndTimeWindow(store, pathId, subMinutes(now, windowMinutes), now)

\* the telemetry executeQuery may fetch for the intent
fetchTelemetry(intent, store, now, timeWindow) ==
    IF intent.questionType = "route_utilization" /\ intent.sourcePath # ""
    THEN getTelemetryByPath(store, intent.sourcePath, timeWindow.minutes, now)
    ELSE getTelemetry(store, intent.truckId, timeWindow.minutes, now)

\* the records that may be stored: two trucks seen at five instants, both on
\* path_1 at three of them and on path_2 at the others
StoredRecords ==
    { [truckId |-> truck, timestamp |-> t,
       haulPathId |-> IF t \in {20, 55, 60} THEN "path_1" ELSE "path_2"] :
          truck \in {"TruckA", "TruckB"}, t \in {0, 20, 40, 55, 60} }

Stores == {store \in SUBSET StoredRecords : Cardinality(store) <= MaxStored}

\* query intents on TruckA, or on path_1 for route utilization
WindowIntents ==
    { [questionType |-> questionType, truckId |-> "TruckA",
       sourcePath |-> IF questionType = "route_utilization" THEN "path_1" ELSE "",
       timeWindow |-> IntentWindow(minutes, startTime, endTime)] :
          questionType \in {"current_speed", "average_speed", "trip_count",
                            "route_utilization"},
          minutes \in {10, 45}, startTime \in {NoDate, 0, 20}, endTime \in {NoDate, 40} }

InitWindow ==
    /\ entities = newDTDLModel(<<>>)
    /\ order = <<>>
    /\ calls = 0
    /\ res = NoResult
    /\ vin = NoInput
    /\ vout = NoValidation
    /\ cmds = NoCommands
    /\ db = NoStore
    /\ writer = NoWriter
    /\ \E intent \in WindowIntents, store \in Stores :
          rin = [has |-> TRUE, call |-> "executeQuery", intent |-> intent,
                 store |-> store, now |-> 60]
    /\ rout = NoReturn
    /\ executors = registerAll(NoExecutors, DefaultExecutors)
    /\ registered = DefaultExecutors

\* executeQuery, steps 3 and 4: the effective time window, its dates, and the
\* telemetry fetched for the truck
FetchForTruck ==
    /\ "telemetry" \notin DOMAIN rout
    /\ ~(rin.intent.questionType = "route_utilization" /\ rin.intent.sourcePath # "")
    /\ \E telemetry \in fetchTelemetry(rin.intent, rin.store, rin.now,
                          calculateTimeWindow(effectiveTimeWindow(rin.intent.questionType,
                                                                  rin.intent.timeWindow),
                                              rin.now)) :
          rout' = rout @@ ("telemetry" :> telemetry)
    /\ UNCHANGED <<executors, registered, entities, order, calls, res, vin, vout, cmds, db, writer, rin>>

\* executeQuery, steps 3 and 4, for a route utilization query keyed by path
FetchForPath ==
    /\ "telemetry" \notin DOMAIN rout
    /\ rin.intent.questionType = "route_utilization" /\ rin.intent.sourcePath # ""
    /\ \E telemetry \in fetchTelemetry(rin.intent, rin.store, rin.now,
                          calculateTimeWindow(effectiveTimeWindow(rin.intent.questionType,
                                                                  rin.intent.timeWindow),
                                              rin.now)) :
          rout' = rout @@ ("telemetry" :> telemetry)
    /\ UNCHANGED <<executors, registered, entities, order, calls, res, vin, vout, cmds, db, writer, rin>>

NextWindow == FetchForTruck \/ FetchForPath

SpecWindow == InitWindow /\ [][NextWindow]_vars

----------------------------------------------------------------------------
(* SchemaResolver.resolveQuery and SpecQuery: a query intent is resolved    *)
(* against the model and the resolved query is handed to the executor the   *)
(* default registry gives for its intent.                                   *)

QuestionTypes ==
    {"average_speed", "current_speed", "trip_count", "route_utilization",
     "max_speed", "min_speed", "property"}

\* a QueryIntent; propertyName, sourcePath and destinationPath are "" when
\* absent
QueryIntent(questionType, targetEntity, propertyName, sourcePath, destinationPath, minutes) ==
    [questionType |-> questionType, targetEntity |-> targetEntity,
     propertyName |-> propertyName, sourcePath |-> sourcePath,
     destinationPath |-> destinationPath, timeWindow |-> TimeWindow(minutes)]

\* SchemaResolver.mapQuestionTypeToIntent(questionType)
mapQuestionTypeToIntent(questionType) ==
    CASE questionType \in {"average_speed", "max_speed", "min_speed"} -> "aggregate"
      [] questionType \in {"current_speed", "property"} -> "get_property"
      [] questionType = "trip_count" -> "count"
      [] questionType = "route_utilization" -> "aggregate"
      [] OTHER -> "get_property"

\* the operation resolveQuery extracts from the question type ("" when none)
operationOf(questionType) ==
    CASE questionType = "average_speed" -> "average"
      [] questionType = "max_speed" -> "max"
      [] questionType = "min_speed" -> "min"
      [] questionType = "route_utilization" -> "average"
      [] OTHER -> ""

\* the entity that stands for all entities in a route utilization query
AllEntities ==
    [id |-> "ALL", displayName |-> "All entities", contents |-> <<>>, type |-> "",
     properties |-> <<>>, relationships |-> <<>>]

\* the default telemetry property for speed
DefaultSpeedProperty ==
    [name |-> "speedMph", type |-> "number", units |-> "km/h", source |-> "telemetry",
     value |-> Undef, initialValue |-> Undef, writable |-> FALSE]

\* the DomainError thrown by resolveQuery
QueryFailed(code) ==
    [thrown |-> TRUE, code |-> code, targetEntity |-> "", dataSource |-> "",
     query |-> ResolvedQuery("", FALSE, NotResolved.property, "", NoTimeWindow, "", "")]

\* the sourcePath of the resolved query
sourcePathOf(intent) ==
    IF /\ intent.questionType = "route_utilization"
       /\ intent.sourcePath = ""
       /\ \/ includes(toLowerCase(Chars(intent.targetEntity)), <<"p", "a", "t", "h", "_">>)
          \/ includes(toLowerCase(Chars(intent.targetEntity)), <<"r", "o", "u", "t", "e", "_">>)
    THEN intent.targetEntity
    ELSE intent.sourcePath

\* resolveQuery step 5: the resolved query built
queryResolved(intent, entity, hasProperty, property, dataSource) ==
    [thrown |-> FALSE, code |-> "", targetEntity |-> entity.id, dataSource |-> dataSource,
     query |-> ResolvedQuery(mapQuestionTypeToIntent(intent.questionType), hasProperty,
                             property, operationOf(intent.questionType),
                             intent.timeWindow, sourcePathOf(intent),
                             intent.destinationPath)]

\* resolveQuery step 3, propertyResult being the result of resolveProperty on
\* the entity for "speed" or for the property name of the intent
withProperty(intent, entity, propertyResult) ==
    IF intent.questionType = "current_speed" /\ intent.propertyName = ""
    THEN IF propertyResult.success
         THEN queryResolved(intent, entity, TRUE, propertyResult.property, "telemetry")
         ELSE queryResolved(intent, entity, TRUE, DefaultSpeedProperty, "telemetry")
    ELSE IF intent.propertyName # ""
    THEN IF ~propertyResult.success THEN QueryFailed("PROPERTY_NOT_FOUND")
         ELSE queryResolved(intent, entity, TRUE, propertyResult.property,
                            IF propertyResult.property.source = "dtdl" THEN "dtdl"
                            ELSE "telemetry")
    ELSE queryResolved(intent, entity, FALSE, NotResolved.property, "telemetry")

\* resolveQuery from the entity resolved
resolveQueryOn(intent, entity) ==
    withProperty(intent, entity,
                 resolveProperty(entity,
                                 IF intent.questionType = "current_speed"
                                    /\ intent.propertyName = ""
                                 THEN "speed" ELSE intent.propertyName))

\* resolveQuery from the result of EntityResolver.resolve
resolveQueryFound(intent, ents, found) ==
    IF found.stage = 0 THEN QueryFailed("ENTITY_NOT_FOUND")
    ELSE resolveQueryOn(intent, ents[found.id])

\* SchemaResolver.resolveQuery(intent): the resolved query, its target entity
\* and the dataSource of its metadata, or the DomainError thrown
resolveQuery(intent, ents, ord) ==
    IF intent.questionType = "route_utilization" /\ intent.targetEntity = "ALL"
    THEN resolveQueryOn(intent, AllEntities)
    ELSE resolveQueryFound(intent, ents, resolve(intent.targetEntity, ents, ord))

\* executor.execute(resolvedQuery, telemetry) for the executor of that name
executeWith(name, query, telemetry) ==
    CASE name = "PropertyExecutor" -> propertyExecute(query, telemetry)
      [] name = "AggregateExecutor" -> aggregateExecute(query, telemetry)
      [] name = "CountExecutor" -> countExecute(query, telemetry)

MaxSpeedLimit == PropertyItem("maxSpeedKph", "double", NumV(60 * Scale), Undef, Undef)

\* the stores the process may have started from: a truck with or without a
\* declared speed limit, and a loader
QueryRows ==
    { <<Row(TruckA, "Haul Truck CAT 777", contents),
        Row(LoaderA, "Loader CAT 994", <<CategoryFixed, SpeedTelemetry>>)>> :
          contents \in { <<FocusSet, OnPath, SpeedTelemetry>>,
                         <<FocusSet, MaxSpeedLimit, SpeedTelemetry>>,
                         <<OnPath, SpeedTelemetry>> } }

QueryInputs ==
    { QueryIntent(questionType, targetEntity, propertyName, sourcePath, "", 60) :
          questionType \in QuestionTypes,
          targetEntity \in {TruckA, "truck 999", "ALL"},
          propertyName \in {"", "status", "focus snap distance", "bogus phrase"},
          sourcePath \in {"", "path_1"} }

\* the telemetry fetched: none, or one record
QueryWindows ==
    { <<>>, <<TelemetryRecord(1, StrV("path_1"), NumV(10 * Scale), StrV("hauling"))>> }

InitQuery ==
    /\ \E rows \in QueryRows :
          /\ entities = loadModel(rows)
          /\ order = rowIds(rows)
    /\ calls = 0
    /\ res = NoResult
    /\ vin = NoInput
    /\ vout = NoValidation
    /\ cmds = NoCommands
    /\ db = NoStore
    /\ writer = NoWriter
    /\ \E intent \in QueryInputs, telemetry \in QueryWindows :
          rin = [has |-> TRUE, call |-> "executeQuery", intent |-> intent,
                 telemetry |-> telemetry]
    /\ rout = NoReturn
    /\ executors = registerAll(NoExecutors, DefaultExecutors)
    /\ registered = DefaultExecutors

\* executeQuery step 2: schemaResolver.resolveQuery(intent)
ResolveQuery ==
    /\ "resolveQuery" \notin DOMAIN rout
    /\ rout' = rout @@ ("resolveQuery" :> resolveQuery(rin.intent, entities, order))
    /\ UNCHANGED <<executors, registered, entities, order, calls, res, vin, vout, cmds, db, writer, rin>>

\* executeQuery steps 5 and 6: the executor of the registry for the resolved
\* query, and its execute on the telemetry fetched
ExecuteQuery ==
    /\ "resolveQuery" \in DOMAIN rout
    /\ ~rout["resolveQuery"].thrown
    /\ "execute" \notin DOMAIN rout
    /\ \E found \in {getExecutor(executors, rout["resolveQuery"].query.intent)} :
          rout' = rout @@ ("getExecutor" :> found)
                       @@ ("execute" :>
                              IF found.thrown THEN ExecutorError("No executor found")
                              ELSE executeWith(found.executor.name,
                                               rout["resolveQuery"].query, rin.telemetry))
    /\ UNCHANGED <<executors, registered, entities, order, calls, res, vin, vout, cmds, db, writer, rin>>

NextQuery == ResolveQuery \/ ExecuteQuery

SpecQuery == InitQuery /\ [][NextQuery]_vars

----------------------------------------------------------------------------
(* Properties of the twin model (SpecModel) *)

PropertyIndexes(e) == {i \in 1..Len(e.contents) : e.contents[i].type = "Property"}

\* the value a reader takes from a Property item: its current value, else its
\* declared default, else null
EffectiveValue(item) ==
    LET v == OrElse(item.value, item.initialValue)
    IN  IF v # Undef THEN v ELSE Null

\* C1 as stated: every Property item of every entity has exactly one cache
\* entry with its name and its value field, and every cache entry has exactly
\* one Property item with its name and value.
C1_CacheEqualsItemValue ==
    \A id \in DOMAIN entities :
        LET e == entities[id]
        IN  /\ \A i \in PropertyIndexes(e) :
                  Cardinality({nm \in DOMAIN e.properties :
                      /\ nm = e.contents[i].name
                      /\ e.properties[nm].value = e.contents[i].value}) = 1
            /\ \A nm \in DOMAIN e.properties :
                  Cardinality({i \in PropertyIndexes(e) :
                      /\ e.contents[i].name = nm
                      /\ e.contents[i].value = e.properties[nm].value}) = 1

\* C1 amended: after load and after any sequence of updateEntityProperty
\* calls, every Property item of every entity has exactly one cache entry with
\* its name, holding the item's current value when the item has one and
\* otherwise its declared default (null when it has neither), and every cache
\* entry has exactly one such Property item.
C1_CacheMatchesContents ==
    \A id \in DOMAIN entities :
        LET e == entities[id]
        IN  /\ \A i \in PropertyIndexes(e) :
                  Cardinality({nm \in DOMAIN e.properties :
                      /\ nm = e.contents[i].name
                      /\ e.properties[nm].value = EffectiveValue(e.contents[i])}) = 1
            /\ \A nm \in DOMAIN e.properties :
                  Cardinality({i \in PropertyIndexes(e) :
                      /\ e.contents[i].name = nm
                      /\ EffectiveValue(e.contents[i]) = e.properties[nm].value}) = 1

\* a successful update has overwritten a property whose item had no value field
C1_Witness ==
    /\ calls > 0
    /\ res.success
    /\ res.property = Focus
    /\ res.oldValue \in {NumV(100 * Scale), Null}
    /\ res.newValue # res.oldValue
    /\ entities[res.entityId].properties[Focus].value = res.newValue

\* C2: a successful updateEntityProperty on an entity whose content list has a
\* Property item of that name leaves the new value in the cache entry and in
\* the item's value field, and the item's initialValue as it was before.
C2_RoundTrip ==
    [][ (calls' # calls /\ res'.success
         /\ findProperty(entities[res'.entityId].contents, res'.property) # 0)
        => LET id == res'.entityId
               k == findProperty(entities[id].contents, res'.property)
           IN  /\ entities'[id].properties[res'.property].value = res'.newValue
               /\ findProperty(entities'[id].contents, res'.property) = k
               /\ entities'[id].contents[k].value = res'.newValue
               /\ entities'[id].contents[k].initialValue =
                      entities[id].contents[k].initialValue ]_vars

\* focusSnapDistanceMeters was set to 300 while its declared default is 100
C2_Witness ==
    /\ res.success
    /\ res.property = Focus
    /\ res.newValue = NumV(300 * Scale)
    /\ LET e == entities[res.entityId]
           k == findProperty(e.contents, Focus)
       IN  /\ k # 0
           /\ e.contents[k].value = NumV(300 * Scale)
           /\ e.contents[k].initialValue = NumV(100 * Scale)
           /\ e.properties[Focus].value = NumV(300 * Scale)

\* C6: a call naming an entity that is not in the model, or a property that
\* has no cache entry, returns a failure with oldValue undefined and leaves
\* the model as it was.
C6_FailureChangesNothing ==
    [][ (calls' # calls
         /\ \/ res'.entityId \notin DOMAIN entities
            \/ res'.property \notin DOMAIN entities[res'.entityId].properties)
        => /\ ~res'.success
           /\ res'.oldValue = Undef
           /\ res'.error # <<>>
           /\ entities' = entities
           /\ order' = order ]_vars

\* both failures have happened: the last call named a property without cache
\* entry, after an earlier one that left the call counter at 1
C6_Witness ==
    /\ calls = 2
    /\ ~res.success
    /\ res.entityId \in DOMAIN entities
    /\ res.property \notin DOMAIN entities[res.entityId].properties

\* a call on an entity that is not in the model failed
C6_WitnessNoEntity ==
    /\ calls > 0
    /\ ~res.success
    /\ res.entityId \notin DOMAIN entities

----------------------------------------------------------------------------
(* Properties of UpdateValidator.validate (SpecValidate) *)

\* validate has returned
VDone == vin.has /\ vout # NoValidation
VExists == VDone /\ vin.property \in DOMAIN vin.entity.properties
VDef == vin.entity.properties[vin.property]
VRow == getConstraint(vin.store, vin.entity.type, vin.property)

\* the six checks of the contract, each on the input alone
VFails(rule) ==
    CASE rule = 1 -> vin.property \notin DOMAIN vin.entity.properties
      [] rule = 2 -> VDef.constraints.has /\ VDef.constraints.readOnly = BoolV(TRUE)
      [] rule = 3 -> IF VRow.has THEN VRow.readOnly \/ ~VRow.editable
                     ELSE VDef.editable = BoolV(FALSE)
      [] rule = 4 -> VDef.type \in {"number", "string", "boolean"}
                     /\ TypeOf(vin.value) # VDef.type
      [] rule = 5 -> /\ VDef.type = "number"
                     /\ LET lo == IF VRow.minValue # Undef THEN VRow.minValue
                                  ELSE VDef.constraints.min
                            hi == IF VRow.maxValue # Undef THEN VRow.maxValue
                                  ELSE VDef.constraints.max
                        IN  \/ lo # Undef /\ vin.value.n < lo.n
                            \/ hi # Undef /\ vin.value.n > hi.n
      [] rule = 6 -> LET av == IF VRow.allowedValues.has THEN VRow.allowedValues
                               ELSE VDef.constraints.allowedValues
                     IN  av.has /\ \A i \in 1..Len(av.vals) : av.vals[i] # vin.value

\* the first check that fails, in the order of the contract (0: none)
VFirstFailing ==
    IF VFails(1) THEN 1
    ELSE IF VFails(2) THEN 2
    ELSE IF VFails(3) THEN 3
    ELSE IF VFails(4) THEN 4
    ELSE IF VFails(5) THEN 5
    ELSE IF VFails(6) THEN 6
    ELSE 0

\* the rule a reason string belongs to, read off the fixed text of the string
RuleOfReason(error) ==
    IF error = <<>> THEN 0
    ELSE IF error[1] = "Property '" /\ error[3] = "' does not exist on entity '" THEN 1
    ELSE IF error[1] = "Property '" /\ error[3] = "' is read-only" THEN 2
    ELSE IF error[1] = "Property '" /\ error[3] = "' is not editable" THEN 3
    ELSE IF error[1] = "Property '"
            /\ error[3] \in {"' must be a number, got ", "' must be a string, got ",
                             "' must be a boolean, got "} THEN 4
    ELSE IF error[1] = "Value "
            /\ error[3] \in {" is below minimum ", " is above maximum "} THEN 5
    ELSE IF error[1] = "Value '" /\ error[3] = "' is not in allowed values: " THEN 6
    ELSE 7

\* C8: validate accepts exactly when none of the six checks fails, and
\* otherwise returns the reason of the first failing check in the order
\* property-exists, read-only definition, editability, type, range, allowed
\* values; the reason identifies its rule (no two rules share a reason).
C8_FirstFailureWins ==
    VDone =>
        /\ vout.valid <=> VFirstFailing = 0
        /\ RuleOfReason(vout.error) = VFirstFailing
        /\ RuleOfReason(vout.error) # 7

\* a non-editable property was given a value of the wrong type, outside its
\* bounds: the editability reason is the one returned
C8_Witness ==
    /\ VExists
    /\ VFails(3) /\ VFails(4)
    /\ ~VFails(2)
    /\ vout = Invalid(<<"Property '", Focus, "' is not editable">>)

C9_WitnessNoRow ==
    /\ VExists /\ ~VFails(2)
    /\ ~VRow.has
    /\ VDef.editable = BoolV(FALSE)
    /\ vout = Invalid(<<"Property '", Focus, "' is not editable">>)

\* the bounds in force are min = 0 and max = 100
VBounds0To100 ==
    \/ VRow.has /\ VRow.minValue = NumV(0) /\ VRow.maxValue = NumV(100 * Scale)
    \/ /\ ~VRow.has
       /\ VDef.constraints.min = NumV(0)
       /\ VDef.constraints.max = NumV(100 * Scale)

\* C10: for an editable numeric property with bounds min = 0 and max = 100 and
\* a numeric value, validate rejects a value below 0 (such as -10) with the
\* reason citing the minimum, rejects a value above 100 (such as 100.0001) with
\* the reason citing the maximum, and does not reject on range a value from 0
\* to 100, both included.
C10_InclusiveBounds ==
    (VExists /\ ~VFails(2) /\ ~VFails(3) /\ VDef.type = "number"
     /\ TypeOf(vin.value) = "number" /\ VBounds0To100) =>
        /\ vin.value.n < 0 =>
              vout = Invalid(<<"Value ", vin.value, " is below minimum ", NumV(0)>>)
        /\ vin.value.n > 100 * Scale =>
              vout = Invalid(<<"Value ", vin.value, " is above maximum ",
                               NumV(100 * Scale)>>)
        /\ (vin.value.n >= 0 /\ vin.value.n <= 100 * Scale) =>
              /\ RuleOfReason(vout.error) \in {0, 6}
              /\ vout.valid <=> ~VFails(6)

\* 100 was accepted under the bounds 0 and 100
C10_Witness ==
    /\ VExists /\ VBounds0To100
    /\ vin.value = NumV(100 * Scale)
    /\ vout.valid

\* 100.0001 was rejected citing the maximum
C10_WitnessAbove ==
    /\ VExists /\ VBounds0To100
    /\ vin.value = NumV(100 * Scale + 1)
    /\ vout = Invalid(<<"Value ", vin.value, " is above maximum ", NumV(100 * Scale)>>)

\* -10 was rejected citing the minimum
C10_WitnessBelow ==
    /\ VExists /\ VBounds0To100
    /\ vin.value = NumV(-10 * Scale)
    /\ vout = Invalid(<<"Value ", vin.value, " is below minimum ", NumV(0)>>)

----------------------------------------------------------------------------
(* Properties of the command path (SpecCmd) *)

\* the cached value of a property and the value of its content item
CacheOf(ents, id, property) == ents[id].properties[property].value
ItemOf(contents, property) == contents[findProperty(contents, property)].value

CmdDone(c) == cmds[c].pc = "done"
CmdAccepted(c) == cmds[c].pc # "idle" /\ cmds[c].resolved.code = ""
CmdProperty(c) == cmds[c].resolved.property.name
CmdValue(c) == cmds[c].resolved.value

\* command c holds in memory what it wrote to id, unless the other command
\* wrote the property after it
KeepsWrite(ents, c, id) ==
    writer[<<id, CmdProperty(c)>>] = c =>
        /\ CacheOf(ents, id, CmdProperty(c)) = CmdValue(c)
        /\ ItemOf(ents[id].contents, CmdProperty(c)) = CmdValue(c)

\* the step in which the save awaited by command c throws
SaveThrows(c) ==
    /\ cmds[c].pc = "saving"
    /\ cmds'[c].saved = Append(cmds[c].saved, FALSE)

\* C3: when the in-memory update of an entity succeeded and the save of that
\* entity throws, the entity's result is pushed with success false and an
\* error message, and nothing is rolled back: the step leaves the entity as
\* it was, so the cache and the content item keep the value the command
\* wrote (unless the other command has written the property since).
C3_FailedSaveKeepsMutation ==
    [][\A c \in Cmds :
          SaveThrows(c) =>
              /\ Len(cmds'[c].updates) > Len(cmds[c].updates)
              /\ cmds'[c].updates[Len(cmds[c].updates) + 1].entityId
                    = cmds[c].pending.entityId
              /\ cmds[c].pending.success
              /\ ~cmds'[c].updates[Len(cmds[c].updates) + 1].success
              /\ cmds'[c].updates[Len(cmds[c].updates) + 1].error # <<>>
              /\ entities'[cmds[c].pending.entityId] = entities[cmds[c].pending.entityId]
              /\ db' = db
              /\ KeepsWrite(entities', c, cmds[c].pending.entityId)]_vars

\* a single-entity command returned failure because its save threw, and
\* memory holds its value while the store still holds the old one
C3_Witness ==
    \E c \in Cmds :
        /\ CmdDone(c) /\ CmdAccepted(c)
        /\ cmds[c].saved = <<FALSE>>
        /\ ~cmds[c].response.success
        /\ Len(cmds[c].response.errors) = 1
        /\ CacheOf(entities, TruckA, Focus) = CmdValue(c)
        /\ ItemOf(entities[TruckA].contents, Focus) = CmdValue(c)
        /\ ItemOf(db[TruckA], Focus) # CmdValue(c)

\* the target entities of command c that pass validation, in target order
ValidTargets(c) ==
    SelectSeq(cmds[c].resolved.targetEntities,
              LAMBDA id : validate(DefaultConstraints, entities[id],
                                   CmdProperty(c), CmdValue(c)).valid)

\* C4: in a command over several validated entities a save that throws
\* neither stops nor undoes the others: every validated entity is updated in
\* memory, the returned list holds exactly one result per validated entity
\* in target order, and a result is successful exactly when the save of its
\* entity returned.
C4_OneResultPerValidEntity ==
    \A c \in Cmds :
        CmdDone(c) /\ CmdAccepted(c) =>
            /\ cmds[c].applied = ValidTargets(c)
            /\ Len(cmds[c].response.updates) = Len(ValidTargets(c))
            /\ Len(cmds[c].saved) = Len(ValidTargets(c))
            /\ \A i \in 1..Len(ValidTargets(c)) :
                  /\ cmds[c].response.updates[i].entityId = ValidTargets(c)[i]
                  /\ cmds[c].response.updates[i].success = cmds[c].saved[i]
                  /\ KeepsWrite(entities, c, ValidTargets(c)[i])

\* a bulk command whose first save threw and whose second save returned
C4_Witness ==
    \E c \in Cmds :
        /\ CmdDone(c) /\ CmdAccepted(c)
        /\ cmds[c].saved = <<FALSE, TRUE>>
        /\ cmds[c].response.success
        /\ ~cmds[c].response.updates[1].success
        /\ cmds[c].response.updates[2].success
        /\ CacheOf(entities, TruckA, Focus) = CmdValue(c)
        /\ CacheOf(entities, TruckB, Focus) = CmdValue(c)

\* the result of command c for entity id (c has applied id)
ResultFor(c, id) ==
    cmds[c].response.updates[CHOOSE i \in 1..Len(cmds[c].response.updates) :
                                 cmds[c].response.updates[i].entityId = id]

Applied(c, id) == \E i \in 1..Len(cmds[c].applied) : cmds[c].applied[i] = id

\* commands c1 and c2 have both written id, with different values for the
\* same property, every save of theirs returned, and both have responded
Raced(c1, c2, id) ==
    /\ c1 # c2
    /\ CmdDone(c1) /\ CmdAccepted(c1) /\ Applied(c1, id)
    /\ CmdDone(c2) /\ CmdAccepted(c2) /\ Applied(c2, id)
    /\ CmdProperty(c1) = CmdProperty(c2)
    /\ CmdValue(c1) # CmdValue(c2)
    /\ \A i \in 1..Len(cmds[c1].saved) : cmds[c1].saved[i]
    /\ \A i \in 1..Len(cmds[c2].saved) : cmds[c2].saved[i]

\* C5: two commands that write different values to the same entity and
\* property and interleave at their awaits both report success without an
\* error for that entity, whatever the interleaving; the cache entry and the
\* content item end up with one and the same value, the value of the command
\* whose in-memory update ran last.
C5_LastWriterWins ==
    \A c1 \in Cmds, c2 \in Cmds, id \in DOMAIN entities :
        Raced(c1, c2, id) =>
            /\ cmds[c1].response.success /\ cmds[c2].response.success
            /\ ResultFor(c1, id).success /\ ResultFor(c1, id).error = <<>>
            /\ ResultFor(c2, id).success /\ ResultFor(c2, id).error = <<>>
            /\ CacheOf(entities, id, CmdProperty(c1))
                  = ItemOf(entities[id].contents, CmdProperty(c1))
            /\ writer[<<id, CmdProperty(c1)>>] \in {c1, c2}
            /\ CacheOf(entities, id, CmdProperty(c1))
                  = CmdValue(writer[<<id, CmdProperty(c1)>>])

\* the race where the command that wrote last had its save return first:
\* memory holds its value and the store the value of the other command
C5_Witness ==
    \E c1 \in Cmds, c2 \in Cmds :
        /\ Raced(c1, c2, TruckA)
        /\ writer[<<TruckA, Focus>>] = c1
        /\ cmds[c1].response.errors = <<>> /\ cmds[c2].response.errors = <<>>
        /\ CacheOf(entities, TruckA, Focus) = CmdValue(c1)
        /\ ItemOf(db[TruckA], Focus) = CmdValue(c2)

\* the descriptor the property phrase resolves to on the first target is a
\* telemetry one
TelemetryDescriptor(bulk, phrase) ==
    /\ bulk.code = ""
    /\ Len(bulk.entities) > 0
    /\ resolveProperty(entities[bulk.entities[1]], phrase).success
    /\ resolveProperty(entities[bulk.entities[1]], phrase).property.source = "telemetry"

TelemetryCommand(c) ==
    /\ cmds[c].pc # "idle"
    /\ TelemetryDescriptor(resolveBulk(cmds[c].intent.targetEntity, entities, order,
                                       cmds[c].intent.filter),
                           cmds[c].intent.property)

\* C7: a command whose property phrase resolves to a telemetry descriptor is
\* rejected during resolution with code PROPERTY_NOT_EDITABLE: executeCommand
\* returns success false with an empty update list, and the command has
\* validated, mutated and saved no entity.
C7_TelemetryCommandRejected ==
    \A c \in Cmds :
        TelemetryCommand(c) =>
            /\ CmdDone(c)
            /\ cmds[c].resolved.code = "PROPERTY_NOT_EDITABLE"
            /\ cmds[c].response.returned
            /\ ~cmds[c].response.success
            /\ cmds[c].response.updates = <<>>
            /\ cmds[c].validated = <<>>
            /\ cmds[c].applied = <<>>
            /\ cmds[c].saved = <<>>
            /\ \A id \in DOMAIN entities, p \in {Focus, Category} :
                  writer[<<id, p>>] # c

\* the command asking to set "speed" was rejected while the model and the
\* store are as loaded
C7_Witness ==
    \E c \in Cmds :
        /\ TelemetryCommand(c)
        /\ cmds[c].intent.property = "speed"
        /\ cmds[c].resolved.code = "PROPERTY_NOT_EDITABLE"
        /\ cmds[c].response.errors = <<cmds[c].resolved.message>>
        /\ entities = loadModel(CmdRows)
        /\ db = storedContents(CmdRows)


--------------------------------------------------------------------------------
(* Properties of the bounds of a numeric property (SpecValidate) *)

\* the call reached the range check: rules 1 to 4 pass on a numeric property
VAtRange ==
    /\ VExists /\ ~VFails(2) /\ ~VFails(3)
    /\ VDef.type = "number" /\ TypeOf(vin.value) = "number"

\* the outcome of the range check against the bounds lo and hi
VRangeOutcome(lo, hi) ==
    IF lo # Undef /\ vin.value.n < lo.n
    THEN vout = Invalid(<<"Value ", vin.value, " is below minimum ", lo>>)
    ELSE IF hi # Undef /\ vin.value.n > hi.n
    THEN vout = Invalid(<<"Value ", vin.value, " is above maximum ", hi>>)
    ELSE RuleOfReason(vout.error) # 5

\* C11 as stated: for a numeric property the bounds enforced are the
\* constraint row's minValue and maxValue when a row exists, and the
\* property's declared min and max only when no row exists.
C11_RowBoundsWheneverRow ==
    VAtRange =>
        IF VRow.has THEN VRangeOutcome(VRow.minValue, VRow.maxValue)
        ELSE VRangeOutcome(VDef.constraints.min, VDef.constraints.max)

\* what validate enforces: each bound is chosen on its own.  The minimum is
\* the row's minValue when a row exists and defines it, else the declared
\* min; the maximum is the row's maxValue when a row exists and defines it,
\* else the declared max.  A row without bounds leaves the declared ones in force.
C11_BoundByBound ==
    VAtRange =>
        VRangeOutcome(IF VRow.has /\ VRow.minValue # Undef THEN VRow.minValue
                      ELSE VDef.constraints.min,
                      IF VRow.has /\ VRow.maxValue # Undef THEN VRow.maxValue
                      ELSE VDef.constraints.max)

\* a row without bounds exists, and 100.0001 was rejected by the declared maximum
C11_Witness ==
    /\ VAtRange /\ VRow.has /\ VRow.maxValue = Undef
    /\ VDef.constraints.max = NumV(100 * Scale)
    /\ vin.value = NumV(100 * Scale + 1)
    /\ vout = Invalid(<<"Value ", vin.value, " is above maximum ", NumV(100 * Scale)>>)

\* the row's maximum of 10000 overrode the declared 100: 100.0001 was accepted
C11_WitnessRowWins ==
    /\ VAtRange /\ VRow.maxValue = NumV(10000 * Scale)
    /\ VDef.constraints.max = NumV(100 * Scale)
    /\ vin.value = NumV(100 * Scale + 1)
    /\ vout.valid

--------------------------------------------------------------------------------
(* Properties of the entity resolver (SpecResolve) *)

RNormalized == normalizeReference(Chars(rin.reference))
RTokens == splitOn(RNormalized, {"_", " "}, <<>>)
RKeyTokens == keyPartsOf(RTokens)
RPattern == typeMatch(RNormalized)

\* the entity id is one that stage s of the cascade accepts for rin.reference
StageAccepts(s, id) ==
    CASE s = 1 -> id = rin.reference
      [] s = 2 -> Chars(id) = RNormalized
      [] s = 3 -> toLowerCase(Chars(id)) = RNormalized
      [] s = 4 -> /\ Len(RTokens) > 0
                  /\ \A k \in 1..Len(RTokens) :
                        includes(toLowerCase(Chars(id)), RTokens[k])
      [] s = 5 -> /\ RPattern.ok
                  /\ entities[id].type = RPattern.typeName
                  /\ includes(toLowerCase(Chars(id)), RPattern.identifier)
                  /\ \/ RPattern.subIdentifier = <<>>
                     \/ includes(toLowerCase(Chars(id)), RPattern.subIdentifier)
      [] s = 6 -> /\ Len(RKeyTokens) > 0
                  /\ \/ /\ Len(RKeyTokens) = 1
                        /\ includes(toLowerCase(Chars(id)), RKeyTokens[1])
                     \/ \E k, l \in 1..Len(RKeyTokens) :
                           /\ k # l
                           /\ includes(toLowerCase(Chars(id)), RKeyTokens[k])
                           /\ includes(toLowerCase(Chars(id)), RKeyTokens[l])

\* the positions in insertion order of the entities stage s accepts
StagePositions(s) == {i \in 1..Len(order) : StageAccepts(s, order[i])}

\* the stages that accept some entity
StagesMatching == {s \in 1..6 : StagePositions(s) # {}}

Resolved == "resolve" \in DOMAIN rout

\* C12: resolve tries its six stages in order (raw exact id, normalized exact
\* id, case-insensitive id, every token a substring, typed-identifier pattern,
\* loose token overlap).  The entity returned is the one found by the first
\* stage that accepts any entity, so a later stage counts only when every
\* earlier stage accepted none; within that stage it is the first accepted
\* entity in insertion order; EntityNotFoundError is thrown exactly when no
\* stage accepts an entity.
C12_CascadeInOrder ==
    Resolved =>
        IF StagesMatching = {}
        THEN rout["resolve"] = [id |-> "", stage |-> 0]
        ELSE /\ rout["resolve"].stage = least(StagesMatching)
             /\ rout["resolve"].id = order[least(StagePositions(least(StagesMatching)))]

\* the loose stage answered, and with an entity that is not the first of the model
C12_Witness ==
    /\ Resolved
    /\ rout["resolve"].stage = 6
    /\ rout["resolve"].id # order[1]
    /\ StagePositions(4) = {} /\ StagePositions(5) = {}

\* the typed-identifier stage answered because no stricter stage accepted an entity
C12_WitnessTyped ==
    /\ Resolved
    /\ rout["resolve"].stage = 5
    /\ \A s \in 1..4 : StagePositions(s) = {}

\* no stage accepted an entity and EntityNotFoundError was thrown
C12_WitnessNotFound ==
    /\ Resolved
    /\ rout["resolve"].stage = 0
    /\ Len(order) = MaxEntities

\* C13 as stated: with "Haul_Truck_CAT_777_2" and the decoy
\* "Haul_Truck_CAT_777_20" in the model, in either insertion order, the
\* reference "truck 777 2" resolves to "Haul_Truck_CAT_777_2", and the
\* typed-identifier stage is the one that finds it.
C13_TypedStageBeatsDecoy ==
    (Resolved /\ rin.reference = "truck 777 2"
     /\ {TruckA, TruckB} \subseteq DOMAIN entities) =>
        rout["resolve"] = [id |-> TruckA, stage |-> 5]

\* the decoy was inserted first and "truck 777 2" resolved to it, at the
\* every-token-is-a-substring stage
C13_WitnessDecoy ==
    /\ Resolved /\ rin.reference = "truck 777 2"
    /\ {TruckA, TruckB} \subseteq DOMAIN entities
    /\ rout["resolve"] = [id |-> TruckB, stage |-> 4]

\* the truck was inserted first and was found, but at the
\* every-token-is-a-substring stage
C13_WitnessTruck ==
    /\ Resolved /\ rin.reference = "truck 777 2"
    /\ {TruckA, TruckB} \subseteq DOMAIN entities
    /\ rout["resolve"] = [id |-> TruckA, stage |-> 4]

\* the step is the second resolve of the pair
IsResolveAgain == "again" \in DOMAIN rout' /\ "again" \notin DOMAIN rout

\* no two entity ids of the model are equal up to case, and none holds whitespace
IdsDistinctUpToCase ==
    \A id1, id2 \in DOMAIN entities :
        /\ toLowerCase(Chars(id1)) = toLowerCase(Chars(id2)) => id1 = id2
        /\ \A k \in 1..Len(Chars(id1)) : Chars(id1)[k] \notin Whitespace

\* C14 as stated: resolve does not modify the model, and two references with
\* the same normalized form resolve to the same entity of the unchanged model.
C14_SameNormalizedSameEntity ==
    [][(Resolved' /\ rout' # rout) =>
          /\ entities' = entities /\ order' = order
          /\ IsResolveAgain => rout'["again"].id = rout["resolve"].id]_vars

\* C14, amended: resolve does not modify the model; the same reference
\* resolves to the same entity each time; and two references with the same
\* normalized form resolve to the same entity when no two ids of the model
\* are equal up to case and no id holds whitespace.
C14_SameEntityForDistinctIds ==
    [][(Resolved' /\ rout' # rout) =>
          /\ entities' = entities /\ order' = order
          /\ (IsResolveAgain /\ rin.again = rin.reference) =>
                rout'["again"] = rout["resolve"]
          /\ (IsResolveAgain /\ IdsDistinctUpToCase) =>
                rout'["again"].id = rout["resolve"].id]_vars

\* two references of one normalized form, the first an id and the second not,
\* resolved to the same entity by different stages
C14_Witness ==
    /\ "again" \in DOMAIN rout
    /\ rin.reference = TruckA /\ rin.again = "HAUL TRUCK CAT 777 2"
    /\ IdsDistinctUpToCase
    /\ rout["resolve"].id = TruckA /\ rout["again"].id = TruckA

\* "Truck_56" and "truck_56" have one normalized form and resolved to two entities
C14_WitnessTwoEntities ==
    /\ "again" \in DOMAIN rout
    /\ rin.reference = Truck56 /\ rin.again = truck56
    /\ rout["resolve"].id = Truck56 /\ rout["again"].id = truck56

BulkResolved == "resolveBulk" \in DOMAIN rout

\* the reference contains "all", in any case of the letters
MentionsAll == includes(toLowerCase(Chars(rin.reference)), <<"a", "l", "l">>)

\* the entity passes the type filter and the relationship filter, where given
PassesFilter(id) ==
    /\ rin.filter.type # "" => entities[id].type = rin.filter.type
    /\ rin.filter.relationship.has =>
          /\ rin.filter.relationship.name \in DOMAIN entities[id].relationships
          /\ entities[id].relationships[rin.filter.relationship.name]
                = rin.filter.relationship.targetId

\* the list holds each id at most once and in insertion order
InInsertionOrder(ids) ==
    \A i, j \in 1..Len(ids) :
        i < j => \E k, l \in 1..Len(order) : k < l /\ order[k] = ids[i] /\ order[l] = ids[j]

\* C15: when the reference contains "all" (in any case), resolveBulk returns,
\* in insertion order, exactly the entities that pass the optional type
\* filter and the optional relationship filter, hence every entity when no
\* filter is given; otherwise it returns the one-element list holding what
\* resolve returns for the reference, and throws when resolve throws.
C15_BulkOrSingle ==
    BulkResolved =>
        IF MentionsAll
        THEN /\ rout["resolveBulk"].code = ""
             /\ InInsertionOrder(rout["resolveBulk"].entities)
             /\ \A id \in DOMAIN entities :
                   PassesFilter(id) <=>
                       \E i \in 1..Len(rout["resolveBulk"].entities) :
                           rout["resolveBulk"].entities[i] = id
             /\ rin.filter = NoFilter => rout["resolveBulk"].entities = order
        ELSE IF StagesMatching = {}
        THEN rout["resolveBulk"] = [code |-> "ENTITY_NOT_FOUND", entities |-> <<>>]
        ELSE rout["resolveBulk"] =
                [code |-> "",
                 entities |-> <<order[least(StagePositions(least(StagesMatching)))]>>]

\* both filters were given, two entities passed them and one did not
C15_Witness ==
    /\ BulkResolved /\ MentionsAll
    /\ rin.filter.type # "" /\ rin.filter.relationship.has
    /\ Len(rout["resolveBulk"].entities) = 2
    /\ Len(order) = 3

\* a reference without "all" gave the one entity resolve finds
C15_WitnessSingle ==
    /\ BulkResolved /\ ~MentionsAll
    /\ Len(rout["resolveBulk"].entities) = 1

--------------------------------------------------------------------------------
(* Properties of the property resolver (SpecProperty) *)

PropertyResolved == "resolveProperty" \in DOMAIN rout

PNormalized == normalizePropertyName(Chars(rin.naturalLanguageName))

\* either holds the other as a substring
ContainsEitherWay(a, b) == includes(a, b) \/ includes(b, a)

\* the names that match the phrase at priority p: 1 to 3 are the Property
\* items of the content list by exact normalized name, by a known phrase
\* variation and by substring; 4 to 6 the telemetry fields likewise
NamesAt(p) ==
    CASE p = 1 ->
           { rin.entity.contents[i].name : i \in
               { j \in 1..Len(rin.entity.contents) :
                   /\ rin.entity.contents[j].type = "Property"
                   /\ normalizePropertyName(Chars(rin.entity.contents[j].name))
                         = PNormalized } }
      [] p = 2 ->
           { rin.entity.contents[i].name : i \in
               { j \in 1..Len(rin.entity.contents) :
                   /\ rin.entity.contents[j].type = "Property"
                   /\ someVariation(variationsOf(rin.entity.contents[j].name),
                                    PNormalized) } }
      [] p = 3 ->
           { rin.entity.contents[i].name : i \in
               { j \in 1..Len(rin.entity.contents) :
                   /\ rin.entity.contents[j].type = "Property"
                   /\ ContainsEitherWay(toLowerCase(Chars(rin.entity.contents[j].name)),
                                        PNormalized) } }
      [] p = 4 ->
           { TELEMETRY_FIELDS[i].name : i \in
               { j \in 1..Len(TELEMETRY_FIELDS) :
                   Chars(TELEMETRY_FIELDS[j].name) = PNormalized } }
      [] p = 5 ->
           { TELEMETRY_FIELDS[i].name : i \in
               { j \in 1..Len(TELEMETRY_FIELDS) :
                   someVariation(variationsOf(TELEMETRY_FIELDS[j].name), PNormalized) } }
      [] p = 6 ->
           { TELEMETRY_FIELDS[i].name : i \in
               { j \in 1..Len(TELEMETRY_FIELDS) :
                   ContainsEitherWay(toLowerCase(Chars(TELEMETRY_FIELDS[j].name)),
                                     PNormalized) } }

PrioritiesMatching == {p \in 1..6 : NamesAt(p) # {}}

\* C16 as stated: resolveProperty returns the match of highest priority, the
\* priorities being a Property of the content list by exact normalized name,
\* then by known phrase variation, then by substring containment, then a
\* telemetry field by exact name, by variation, by substring; the descriptor
\* is tagged 'dtdl' for the first three and 'telemetry' for the others, and
\* the result is not-found only when nothing matches.
C16_HighestPriorityMatch ==
    PropertyResolved =>
        IF PrioritiesMatching = {}
        THEN ~rout["resolveProperty"].success
        ELSE /\ rout["resolveProperty"].success
             /\ rout["resolveProperty"].property.name
                   \in NamesAt(least(PrioritiesMatching))
             /\ rout["resolveProperty"].property.source =
                   (IF least(PrioritiesMatching) <= 3 THEN "dtdl" ELSE "telemetry")

\* the content list declares maxSpeedKph before speed, and the phrase
\* "speed" resolved to maxSpeedKph, which only contains it
C16_WitnessEarlierItemWins ==
    /\ PropertyResolved
    /\ rin.naturalLanguageName = "speed"
    /\ NamesAt(1) = {"speed"}
    /\ rout["resolveProperty"].success
    /\ rout["resolveProperty"].property.name = "maxSpeedKph"
    /\ rout["resolveProperty"].property.source = "dtdl"

\* what the code does for the content list: the first Property item, in the
\* order of the list, that matches by any of the three tests
C16_FirstMatchingItem ==
    (PropertyResolved /\ (NamesAt(1) \cup NamesAt(2) \cup NamesAt(3)) # {}) =>
        /\ rout["resolveProperty"].success
        /\ rout["resolveProperty"].property.source = "dtdl"
        /\ \E i \in 1..Len(rin.entity.contents) :
              /\ rin.entity.contents[i].name = rout["resolveProperty"].property.name
              /\ rin.entity.contents[i].name \in NamesAt(1) \cup NamesAt(2) \cup NamesAt(3)
              /\ \A j \in 1..(i - 1) :
                    rin.entity.contents[j].name
                        \notin NamesAt(1) \cup NamesAt(2) \cup NamesAt(3)

\* no Property of the list matched "tire pressure", and the first telemetry
\* field containing it was returned
C16_WitnessTelemetry ==
    /\ PropertyResolved
    /\ rin.naturalLanguageName = "tire pressure"
    /\ rout["resolveProperty"].success
    /\ rout["resolveProperty"].property.name = "tirePressureFL"
    /\ rout["resolveProperty"].property.source = "telemetry"

--------------------------------------------------------------------------------
(* Properties of the executor registry (SpecRegistry) *)

\* register call i is the last one made under its name
LastOfItsName(i) ==
    \A j \in (i + 1)..Len(registered) : registered[j].name # registered[i].name

\* the register calls whose executor accepts the intent of the query and has
\* not been replaced
AcceptingCalls ==
    {i \in 1..Len(registered) :
        LastOfItsName(i) /\ rin.intent \in registered[i].handles}

ExecutorAsked == "getExecutor" \in DOMAIN rout

\* C17: after any sequence of register calls no two registered executors
\* share a name, only the instance registered last under a name being kept;
\* getExecutor returns the kept executor registered earliest among those
\* whose canHandle accepts the intent of the resolved query, and throws
\* when none accepts it.
C17_FirstRegisteredHandler ==
    /\ \A i, j \in 1..Len(executors) :
          executors[i].name = executors[j].name => i = j
    /\ ExecutorAsked =>
          IF AcceptingCalls = {}
          THEN rout["getExecutor"].thrown
          ELSE /\ ~rout["getExecutor"].thrown
               /\ rout["getExecutor"].executor = registered[least(AcceptingCalls)]

\* PropertyExecutor was registered again after an executor accepting every
\* intent, and a get_property query got the latter, which is now the
\* earlier registration
C17_Witness ==
    /\ ExecutorAsked
    /\ rin.intent = "get_property"
    /\ Len(registered) = 5
    /\ registered[4].name = "FallbackExecutor"
    /\ registered[5].name = "PropertyExecutor"
    /\ rout["getExecutor"].executor = registered[4]

\* no registered executor accepts a relationship query: getExecutor threw
C17_WitnessThrows ==
    /\ ExecutorAsked
    /\ rin.intent = "relationship"
    /\ rout["getExecutor"].thrown


----------------------------------------------------------------------------
(* Properties of the query executors (SpecExec, SpecCount)                 *)

\* the execute call has returned or thrown
Executed == "execute" \in DOMAIN rout

\* the positions of the records of the greatest timestamp
LatestPositions(telemetry) ==
    {i \in DOMAIN telemetry :
        \A j \in DOMAIN telemetry : telemetry[j].timestamp <= telemetry[i].timestamp}

\* a property query on a telemetry field over a non-empty window has returned
TelemetryPropertyAnswered ==
    /\ Executed
    /\ rin.query.intent = "get_property"
    /\ rin.query.hasProperty
    /\ rin.query.property.source = "telemetry"
    /\ Len(rin.telemetry) > 0

\* result reports the field value read from a record: a number of speedMph
\* times 1.60934 (to the fourth significant figure) in km/h, any other value
\* as it is, "N/A" for a field the record lacks
ReportsField(result, name, value) ==
    IF name = "speedMph" /\ TypeOf(value) = "number"
    THEN /\ result.units = "km/h"
         /\ TypeOf(result.value) = "number"
         /\ (result.value.n * 1000) \div value.n = 1609
    ELSE result.value = (IF value = Undef THEN StrV("N/A") ELSE value)

\* C18: for a telemetry-sourced property and a non-empty window,
\* PropertyExecutor returns the named field of the record with the greatest
\* timestamp (the first of them in the input when several records share it),
\* in whatever order the records are given, a speedMph number multiplied by
\* 1.60934 and reported in km/h, with recordCount the number of records of
\* the window
C18_LatestRecordField ==
    TelemetryPropertyAnswered =>
        /\ ~rout["execute"].thrown
        /\ rout["execute"].metadata.has
        /\ rout["execute"].metadata.recordCount = Len(rin.telemetry)
        /\ ReportsField(rout["execute"], rin.query.property.name,
                        rin.telemetry[least(LatestPositions(rin.telemetry))]
                            [rin.query.property.name])

\* a speed query answered from a window of three records whose latest record
\* is not the first of the input and differs from it in speed
C18_Witness ==
    /\ TelemetryPropertyAnswered
    /\ rin.query.property.name = "speedMph"
    /\ Len(rin.telemetry) = 3
    /\ LatestPositions(rin.telemetry) = {3}
    /\ rin.telemetry[3].speedMph = NumV(25 * Scale)
    /\ rin.telemetry[1].speedMph = NumV(10 * Scale)
    /\ rout["execute"].units = "km/h"
    /\ rout["execute"].value.n > 40 * Scale

\* a status query answered from a latest record that lacks the field
C18_WitnessMissingField ==
    /\ TelemetryPropertyAnswered
    /\ rin.query.property.name = "status"
    /\ LatestPositions(rin.telemetry) = {2}
    /\ rin.telemetry[2].status = Undef
    /\ rout["execute"].value = StrV("N/A")
    /\ rout["execute"].metadata.recordCount = 2

\* the query is answered from the telemetry records: a property query on a
\* telemetry field, or an aggregate query
AnsweredFromRecords ==
    \/ /\ rin.query.intent = "get_property"
       /\ rin.query.hasProperty
       /\ rin.query.property.source = "telemetry"
    \/ rin.query.intent = "aggregate"

\* C19: with zero telemetry records a property query on a telemetry field
\* returns value "N/A" and an aggregate query returns value 0, both with
\* recordCount 0 and without throwing; a result computed from at least one
\* record has recordCount > 0
C19_NoDataDistinguishable ==
    (Executed /\ AnsweredFromRecords) =>
        /\ ~rout["execute"].thrown
        /\ rout["execute"].metadata.has
        /\ (rout["execute"].metadata.recordCount = 0) <=> (Len(rin.telemetry) = 0)
        /\ Len(rin.telemetry) = 0 =>
              rout["execute"].value =
                  (IF rin.query.intent = "aggregate" THEN NumV(0) ELSE StrV("N/A"))

\* an aggregate query answered over an empty window
C19_Witness ==
    /\ Executed
    /\ rin.query.intent = "aggregate"
    /\ Len(rin.telemetry) = 0
    /\ rout["execute"].value = NumV(0)
    /\ rout["execute"].metadata.recordCount = 0

\* a property query on a telemetry field answered over an empty window
C19_WitnessProperty ==
    /\ Executed
    /\ rin.query.intent = "get_property"
    /\ rin.query.hasProperty
    /\ rin.query.property.source = "telemetry"
    /\ Len(rin.telemetry) = 0
    /\ rout["execute"].value = StrV("N/A")
    /\ rout["execute"].metadata.recordCount = 0

\* an aggregate of value 0 over a window that holds records
C19_WitnessZeroValue ==
    /\ Executed
    /\ rin.query.intent = "aggregate"
    /\ Len(rin.telemetry) > 0
    /\ rout["execute"].value = NumV(0)
    /\ rout["execute"].metadata.recordCount > 0

\* the paths of the records, in order
PathsOf(telemetry) == [i \in DOMAIN telemetry |-> telemetry[i].haulPathId.s]

\* the positions where a trip ends: a record on the destination, with a
\* record on the source before it and no record on the destination between
\* the two
TripEnds(paths, sourcePath, destinationPath) ==
    {j \in DOMAIN paths :
        /\ paths[j] = destinationPath
        /\ \E i \in 1..(j - 1) :
              /\ paths[i] = sourcePath
              /\ \A k \in (i + 1)..(j - 1) : paths[k] # destinationPath}

\* a count query with source and destination both given and distinct has
\* been answered
TripsBetweenAnswered ==
    /\ Executed
    /\ rin.query.intent = "count"
    /\ rin.query.filters.sourcePath # ""
    /\ rin.query.filters.destinationPath # ""
    /\ rin.query.filters.sourcePath # rin.query.filters.destinationPath

\* C20: with source and destination both given and distinct, CountExecutor
\* counts one trip for each record on the destination met while the flag
\* "was on source" is set, which any record on the source sets and a counted
\* trip clears; TelemetryService.countTrips counts the same; for the paths
\* [A, A, B, A, B, B, C] with source A and destination B the count is 2
C20_OneWayTransitions ==
    TripsBetweenAnswered =>
        /\ ~rout["execute"].thrown
        /\ rout["execute"].units = "trips"
        /\ rout["execute"].value =
               NumV(Scale * Cardinality(TripEnds(PathsOf(rin.telemetry),
                                                 rin.query.filters.sourcePath,
                                                 rin.query.filters.destinationPath)))
        /\ rout["execute"].value =
               NumV(Scale * countTrips(rin.telemetry, rin.query.filters.sourcePath,
                                       rin.query.filters.destinationPath))
        /\ (/\ PathsOf(rin.telemetry) = <<"A", "A", "B", "A", "B", "B", "C">>
            /\ rin.query.filters.sourcePath = "A"
            /\ rin.query.filters.destinationPath = "B")
           => rout["execute"].value = NumV(Scale * 2)

\* the paths [A, A, B, A, B, B, C] counted from A to B
C20_Witness ==
    /\ TripsBetweenAnswered
    /\ PathsOf(rin.telemetry) = <<"A", "A", "B", "A", "B", "B", "C">>
    /\ rin.query.filters.sourcePath = "A"
    /\ rin.query.filters.destinationPath = "B"
    /\ rout["execute"].value = NumV(Scale * 2)
    /\ rout["execute"].metadata.recordCount = 7


\* a count query with only a source path, or with the destination equal to
\* the source, has been answered over a window that holds records
PathOnlyAnswered ==
    /\ Executed
    /\ rin.query.intent = "count"
    /\ Len(rin.telemetry) > 0
    /\ rin.query.filters.sourcePath # ""
    /\ rin.query.filters.destinationPath \in {"", rin.query.filters.sourcePath}

\* the positions of the records on the path whose preceding record is not on
\* it, the first record having none before it
EntriesOf(paths, pathId) ==
    {i \in DOMAIN paths : paths[i] = pathId /\ (i = 1 \/ paths[i - 1] # pathId)}

\* C21: with only a source path given, or with the destination equal to the
\* source, CountExecutor counts the records that are on the path while the
\* preceding record is not on it, the first record counting as an entry when
\* it is on the path; for [A, A, B, A, B, B, C] and path A the count is 2
C21_EntriesIntoPath ==
    PathOnlyAnswered =>
        /\ rout["execute"].value =
               NumV(Scale * Cardinality(EntriesOf(PathsOf(rin.telemetry),
                                                  rin.query.filters.sourcePath)))
        /\ (/\ PathsOf(rin.telemetry) = <<"A", "A", "B", "A", "B", "B", "C">>
            /\ rin.query.filters.sourcePath = "A")
           => rout["execute"].value = NumV(Scale * 2)

\* the paths [A, A, B, A, B, B, C] counted on A with no destination
C21_Witness ==
    /\ PathOnlyAnswered
    /\ PathsOf(rin.telemetry) = <<"A", "A", "B", "A", "B", "B", "C">>
    /\ rin.query.filters.sourcePath = "A"
    /\ rin.query.filters.destinationPath = ""
    /\ rout["execute"].value = NumV(Scale * 2)

\* the same paths counted with the destination equal to the source
C21_WitnessSamePath ==
    /\ PathOnlyAnswered
    /\ PathsOf(rin.telemetry) = <<"A", "A", "B", "A", "B", "B", "C">>
    /\ rin.query.filters.sourcePath = "A"
    /\ rin.query.filters.destinationPath = "A"
    /\ rout["execute"].value = NumV(Scale * 2)

\* a count query with neither source nor destination has been answered over
\* a window that holds records
AllPathsAnswered ==
    /\ Executed
    /\ rin.query.intent = "count"
    /\ Len(rin.telemetry) > 0
    /\ rin.query.filters.sourcePath = ""
    /\ rin.query.filters.destinationPath = ""

\* the positions where the path id of a record differs from the path id of
\* the record before it
ChangesOf(paths) == {i \in DOMAIN paths : i > 1 /\ paths[i] # paths[i - 1]}

\* the positions of the records that carry a path id and either are the first
\* record or differ in path id from the record before them
PathEntriesOf(paths) ==
    {i \in DOMAIN paths : paths[i] # "" /\ (i = 1 \/ paths[i] # paths[i - 1])}

\* C22: with neither source nor destination given, the count of CountExecutor
\* equals the number of positions where the path id of a record differs from
\* the path id of the record before it
C22_ChangesOfPathId ==
    AllPathsAnswered =>
        rout["execute"].value = NumV(Scale * Cardinality(ChangesOf(PathsOf(rin.telemetry))))

\* what countAllPathEntries counts: the records that carry a path id and
\* open the sequence or differ in path id from the record before them
C22_EntriesIntoAnyPath ==
    AllPathsAnswered =>
        rout["execute"].value =
            NumV(Scale * Cardinality(PathEntriesOf(PathsOf(rin.telemetry))))

\* a truck that stays on one path through the window: no change of path id,
\* one trip counted
C22_WitnessFirstRecord ==
    /\ AllPathsAnswered
    /\ PathsOf(rin.telemetry) = <<"A", "A", "A">>
    /\ rout["execute"].value = NumV(Scale)

\* a record without a path id after a record on a path: a change of path id
\* that is not counted
C22_WitnessNoPath ==
    /\ AllPathsAnswered
    /\ PathsOf(rin.telemetry) = <<"A", "", "A">>
    /\ rout["execute"].value = NumV(Scale * 2)

\* C28: for every record sequence and every pair of distinct paths S and D,
\* the trips counted from S to D are at most the entries into S and at most
\* the entries into D that path-only counting finds on the same sequence,
\* and at most half the number of records
C28_TripsBoundedByEntries ==
    TripsBetweenAnswered =>
        /\ rout["execute"].value.n
              <= Scale * countTripsOnPath(rin.telemetry, rin.query.filters.sourcePath)
        /\ rout["execute"].value.n
              <= Scale * countTripsOnPath(rin.telemetry, rin.query.filters.destinationPath)
        /\ 2 * rout["execute"].value.n <= Scale * Len(rin.telemetry)

\* three trips over six records, each bound met with equality
C28_Witness ==
    /\ TripsBetweenAnswered
    /\ PathsOf(rin.telemetry) = <<"A", "B", "A", "B", "A", "B">>
    /\ rin.query.filters.sourcePath = "A"
    /\ rin.query.filters.destinationPath = "B"
    /\ rout["execute"].value = NumV(Scale * 3)
    /\ countTripsOnPath(rin.telemetry, "A") = 3
    /\ countTripsOnPath(rin.telemetry, "B") = 3

\* fewer trips than entries: the destination entered before the source
C28_WitnessStrict ==
    /\ TripsBetweenAnswered
    /\ PathsOf(rin.telemetry) = <<"B", "C", "A", "C", "B">>
    /\ rin.query.filters.sourcePath = "A"
    /\ rin.query.filters.destinationPath = "B"
    /\ rout["execute"].value = NumV(Scale)
    /\ countTripsOnPath(rin.telemetry, "B") = 2


----------------------------------------------------------------------------
(* Properties of the telemetry window (SpecWindow)                          *)

\* the telemetry of a truck query has been fetched
TruckFetched ==
    /\ "telemetry" \in DOMAIN rout
    /\ rin.intent.questionType # "route_utilization"

\* the records of the sequence, and its order by timestamp
RecordsOf(telemetry) == {telemetry[i] : i \in DOMAIN telemetry}

Ascending(telemetry) ==
    \A i \in DOMAIN telemetry : \A j \in DOMAIN telemetry :
        i < j => telemetry[i].timestamp < telemetry[j].timestamp

\* the truck's records of the store between two instants
TruckRecordsBetween(startTime, endTime) ==
    {r \in rin.store : /\ r.truckId = rin.intent.truckId
                       /\ r.timestamp >= startTime
                       /\ r.timestamp <= endTime}

\* the end of the query's window: the intent's endTime when given, else now
WindowEnd ==
    IF rin.intent.timeWindow.endTime # NoDate THEN rin.intent.timeWindow.endTime
    ELSE rin.now

\* the start of the query's window: the intent's startTime when given, else
\* the end minus the minutes of the effective window
WindowStart ==
    IF rin.intent.timeWindow.startTime # NoDate THEN rin.intent.timeWindow.startTime
    ELSE WindowEnd - effectiveTimeWindow(rin.intent.questionType,
                                         rin.intent.timeWindow).minutes

\* C23: the telemetry handed to the executor for a truck query is exactly the
\* truck's records whose timestamp lies in [start, end], in ascending
\* timestamp order, start and end being the intent's startTime and endTime
\* when given and otherwise end = now and start = end minus the window's
\* minutes
C23_WindowOfIntent ==
    TruckFetched =>
        /\ Ascending(rout["telemetry"])
        /\ Len(rout["telemetry"]) = Cardinality(RecordsOf(rout["telemetry"]))
        /\ RecordsOf(rout["telemetry"]) = TruckRecordsBetween(WindowStart, WindowEnd)

\* what executeQuery fetches: the truck's records of the last minutes of the
\* effective window before now, whatever startTime and endTime the intent
\* gives
C23_WindowBeforeNow ==
    TruckFetched =>
        /\ Ascending(rout["telemetry"])
        /\ Len(rout["telemetry"]) = Cardinality(RecordsOf(rout["telemetry"]))
        /\ RecordsOf(rout["telemetry"]) =
               TruckRecordsBetween(
                   rin.now - effectiveTimeWindow(rin.intent.questionType,
                                                 rin.intent.timeWindow).minutes,
                   rin.now)

\* the intent asks for the window that ends at minute 40 and the telemetry
\* fetched holds the truck's record of minute 55
C23_WitnessExplicitEnd ==
    /\ TruckFetched
    /\ rin.intent.timeWindow.endTime = 40
    /\ \E i \in DOMAIN rout["telemetry"] : rout["telemetry"][i].timestamp = 55

\* the intent gives no dates and the telemetry fetched is the window before now
C23_WitnessNoDates ==
    /\ TruckFetched
    /\ rin.intent.timeWindow.startTime = NoDate
    /\ rin.intent.timeWindow.endTime = NoDate
    /\ Len(rout["telemetry"]) = 2
    /\ RecordsOf(rout["telemetry"]) = TruckRecordsBetween(WindowStart, WindowEnd)
    /\ Cardinality({r \in rin.store : r.truckId = rin.intent.truckId}) = 3


----------------------------------------------------------------------------
(* Further properties of the command path (SpecCmd) *)

\* the validation result of target id under command c
ValidationOf(c, id) ==
    validate(DefaultConstraints, entities[id], CmdProperty(c), CmdValue(c))

\* command c has handed id to updateEntityProperty or to save: it holds a
\* result for id, or awaits the save of id, or has written id
HandedOn(c, id) ==
    \/ \E i \in 1..Len(cmds[c].updates) : cmds[c].updates[i].entityId = id
    \/ cmds[c].pc = "saving" /\ cmds[c].pending.entityId = id
    \/ Applied(c, id)
    \/ /\ <<id, CmdProperty(c)>> \in DOMAIN writer
       /\ writer[<<id, CmdProperty(c)>>] = c

\* the response of command c reports the reason for id, prefixed by the id
ReportsReason(c, id) ==
    \E j \in 1..Len(cmds[c].response.errors) :
        cmds[c].response.errors[j] = <<id, ": ">> \o ValidationOf(c, id).error

\* command c is past the await of its validations
PastValidation(c) == CmdAccepted(c) /\ cmds[c].pc # "validating"

\* C24: in executeCommand an entity is mutated and saved only after its own
\* validation returned valid: a target whose validation fails is never
\* handed to updateEntityProperty or to save and its reason is in the
\* errors of the response, prefixed by its id, while the targets that
\* validated are still updated
C24_ValidBeforeMutation ==
    \A c \in Cmds :
        CmdAccepted(c) =>
            \A i \in 1..Len(cmds[c].resolved.targetEntities) :
                IF ValidationOf(c, cmds[c].resolved.targetEntities[i]).valid
                THEN CmdDone(c) => Applied(c, cmds[c].resolved.targetEntities[i])
                ELSE /\ ~HandedOn(c, cmds[c].resolved.targetEntities[i])
                     /\ CmdDone(c) => ReportsReason(c, cmds[c].resolved.targetEntities[i])

\* a bulk command over the three entities has returned: the loader failed
\* its validation and is as loaded, the two trucks hold the new value
C24_Witness ==
    \E c \in Cmds :
        /\ CmdDone(c) /\ CmdAccepted(c)
        /\ cmds[c].resolved.targetEntities = <<TruckA, TruckB, LoaderA>>
        /\ ~ValidationOf(c, LoaderA).valid
        /\ ReportsReason(c, LoaderA)
        /\ entities[LoaderA] = loadModel(CmdRows)[LoaderA]
        /\ cmds[c].applied = <<TruckA, TruckB>>
        /\ CacheOf(entities, TruckB, Focus) = CmdValue(c)

\* a command whose only target fails the range check: nothing is updated
C24_WitnessOutOfRange ==
    \E c \in Cmds :
        /\ CmdDone(c) /\ CmdAccepted(c)
        /\ CmdValue(c) = NumV(20000 * Scale)
        /\ cmds[c].applied = <<>>
        /\ cmds[c].response.updates = <<>>
        /\ ReportsReason(c, TruckA)

\* the step in which the save awaited by command c returns
SaveSucceeds(c) ==
    /\ cmds[c].pc = "saving"
    /\ cmds'[c].saved = Append(cmds[c].saved, TRUE)

\* the entity a restart rebuilds from the persisted content list
RebuiltFrom(id, displayName, contents) == mapToDomain(Row(id, displayName, contents))

AllCompleted ==
    /\ \A c \in Cmds : CmdDone(c)
    /\ \A c \in Cmds : \A i \in 1..Len(cmds[c].saved) : cmds[c].saved[i]

\* C27: once all concurrently issued commands on an entity have completed
\* and every save succeeded, the content list last written to persistence
\* for the entity equals its in-memory content list, in every interleaving
\* of the commands and every completion order of their saves
C27_StoreEqualsMemory ==
    AllCompleted => \A id \in DOMAIN entities : db[id] = entities[id].contents

\* what holds without locking: the store holds the content list of the save
\* that returned last, whose value is that of one of the commands that wrote
C27_StoreHoldsSomeWrite ==
    AllCompleted =>
        \A id \in DOMAIN entities :
            \/ db[id] = entities[id].contents
            \/ \E c \in Cmds : Applied(c, id) /\ ItemOf(db[id], CmdProperty(c)) = CmdValue(c)

\* two commands wrote TruckA and completed with every save returned; the
\* store holds the value of the first writer and memory that of the second
C27_WitnessStaleStore ==
    /\ AllCompleted
    /\ \A c \in Cmds : CmdAccepted(c) /\ Applied(c, TruckA) /\ cmds[c].response.success
    /\ writer[<<TruckA, Focus>>] = 2
    /\ ItemOf(entities[TruckA].contents, Focus) = CmdValue(2)
    /\ ItemOf(db[TruckA], Focus) = CmdValue(1)
    /\ CmdValue(1) # CmdValue(2)

\* the targets of the intent of command c, as resolveBulk finds them
TargetsOf(c) ==
    resolveBulk(cmds[c].intent.targetEntity, entities, order, cmds[c].intent.filter)

\* command c has been started on an intent that names at least one entity
Targeted(c) ==
    /\ cmds[c].pc # "idle"
    /\ TargetsOf(c).code = ""
    /\ Len(TargetsOf(c).entities) > 0

\* the result of resolving the phrase of command c on its first target
FirstTargetProperty(c) ==
    resolveProperty(entities[TargetsOf(c).entities[1]], cmds[c].intent.property)

\* C30: in a bulk command the property phrase is resolved against the first
\* resolved entity only; every other target without a cache entry under the
\* resolved name is rejected by validation with a "does not exist" reason
\* and is left unchanged, while the targets that have the property (and
\* pass its other checks) are updated
C30_FirstEntityResolvesProperty ==
    \A c \in Cmds :
        (/\ Targeted(c)
         /\ FirstTargetProperty(c).success
         /\ FirstTargetProperty(c).property.source = "dtdl") =>
            /\ CmdAccepted(c)
            /\ cmds[c].resolved.property.name = FirstTargetProperty(c).property.name
            /\ cmds[c].resolved.targetEntities = TargetsOf(c).entities
            /\ CmdDone(c) =>
                  \A i \in 1..Len(TargetsOf(c).entities) :
                      IF CmdProperty(c) \in DOMAIN entities[TargetsOf(c).entities[i]].properties
                      THEN ValidationOf(c, TargetsOf(c).entities[i]).valid
                              => Applied(c, TargetsOf(c).entities[i])
                      ELSE /\ ValidationOf(c, TargetsOf(c).entities[i]).error
                                 = <<"Property '", CmdProperty(c), "' does not exist on entity '",
                                     TargetsOf(c).entities[i], "'">>
                           /\ ReportsReason(c, TargetsOf(c).entities[i])
                           /\ ~HandedOn(c, TargetsOf(c).entities[i])
                           /\ entities[TargetsOf(c).entities[i]]
                                 = loadModel(CmdRows)[TargetsOf(c).entities[i]]

\* a bulk command over the trucks and the loader: the phrase resolves on the
\* first truck and not on the loader, which is rejected and as loaded
C30_Witness ==
    \E c \in Cmds :
        /\ CmdDone(c) /\ Targeted(c)
        /\ TargetsOf(c).entities = <<TruckA, TruckB, LoaderA>>
        /\ FirstTargetProperty(c).success
        /\ CmdProperty(c) = Focus
        /\ ~resolveProperty(entities[LoaderA], cmds[c].intent.property).success
        /\ ReportsReason(c, LoaderA)
        /\ entities[LoaderA] = loadModel(CmdRows)[LoaderA]
        /\ cmds[c].applied = <<TruckA, TruckB>>
        /\ ItemOf(entities[TruckA].contents, Focus) = CmdValue(c)


----------------------------------------------------------------------------
(* Properties of query resolution (SpecQuery)                               *)

\* resolveQuery has returned a resolved query
QueryResolved == "resolveQuery" \in DOMAIN rout /\ ~rout["resolveQuery"].thrown

\* a current_speed query that names no property has been resolved
SpeedQueryResolved ==
    /\ QueryResolved
    /\ rin.intent.questionType = "current_speed"
    /\ rin.intent.propertyName = ""

\* C26: for a current_speed query with no explicit property name the
\* resolved property is the telemetry speed field (name speedMph, source
\* "telemetry") for every entity, whatever Property items its content list
\* declares, and the dataSource of the metadata is "telemetry"
C26_SpeedFromTelemetry ==
    SpeedQueryResolved =>
        /\ rout["resolveQuery"].query.hasProperty
        /\ rout["resolveQuery"].query.property.name = "speedMph"
        /\ rout["resolveQuery"].query.property.source = "telemetry"
        /\ rout["resolveQuery"].dataSource = "telemetry"

\* what resolveQuery returns: the property resolveProperty finds for "speed"
\* on the entity, Property items first, under the dataSource "telemetry"
C26_SpeedAsResolved ==
    SpeedQueryResolved =>
        /\ rout["resolveQuery"].query.hasProperty
        /\ rout["resolveQuery"].query.property
              = resolveProperty(entities[rout["resolveQuery"].targetEntity], "speed").property
        /\ rout["resolveQuery"].dataSource = "telemetry"

\* the truck declares maxSpeedKph: the current speed asked for is answered
\* with the declared limit, a twin property, and no telemetry record is read
C26_WitnessSpeedLimit ==
    /\ SpeedQueryResolved
    /\ "execute" \in DOMAIN rout
    /\ rout["resolveQuery"].query.property.name = "maxSpeedKph"
    /\ rout["resolveQuery"].query.property.source = "dtdl"
    /\ rout["resolveQuery"].dataSource = "telemetry"
    /\ Len(rin.telemetry) = 1
    /\ rout["execute"].value = NumV(60 * Scale)

\* the truck declares no property matching "speed": the telemetry field
C26_WitnessTelemetry ==
    /\ SpeedQueryResolved
    /\ rout["resolveQuery"].query.property.name = "speedMph"
    /\ rout["resolveQuery"].query.property.source = "telemetry"
    /\ rout["resolveQuery"].query.property.units # "km/h"

\* the resolved query has been handed to the registry and executed
QueryExecuted == QueryResolved /\ "execute" \in DOMAIN rout

\* C29: for every query intent for which resolveQuery returns a resolved
\* query, the default registry yields an executor for its generic intent and
\* the execute of that executor does not throw for a missing property or a
\* missing operation
C29_ResolvedQueryExecutes ==
    QueryExecuted =>
        /\ ~rout["getExecutor"].thrown
        /\ canHandle(rout["getExecutor"].executor, rout["resolveQuery"].query.intent)
        /\ ~rout["execute"].thrown

\* what holds: the registry yields an executor for every resolved query, and
\* execute throws exactly for the property question type without a property
\* name
C29_ThrowsWithoutPropertyName ==
    QueryExecuted =>
        /\ ~rout["getExecutor"].thrown
        /\ canHandle(rout["getExecutor"].executor, rout["resolveQuery"].query.intent)
        /\ rout["execute"].thrown
              <=> (rin.intent.questionType = "property" /\ rin.intent.propertyName = "")

\* a property question without a property name: resolved, handed to the
\* PropertyExecutor, which throws
C29_WitnessNoPropertyName ==
    /\ QueryExecuted
    /\ rin.intent.questionType = "property"
    /\ rin.intent.propertyName = ""
    /\ rout["getExecutor"].executor.name = "PropertyExecutor"
    /\ rout["execute"].thrown
    /\ rout["execute"].error = "Property executor requires a property to be resolved"

\* an aggregate question executed with the operation resolveQuery derived
C29_WitnessAggregate ==
    /\ QueryExecuted
    /\ rin.intent.questionType = "max_speed"
    /\ rout["resolveQuery"].query.operation = "max"
    /\ rout["getExecutor"].executor.name = "AggregateExecutor"
    /\ ~rout["execute"].thrown
    /\ rout["execute"].metadata.recordCount = 1

====
